---- MODULE Spec2Model ----
(***************************************************************************)
(* NeuroTunes batch analysis scripts: the batch runners that share         *)
(* comprehensive_audio_analysis_report.json, the filename-heuristic VAD    *)
(* estimators, the signal-feature VAD estimator and the Camelot            *)
(* compatibility arithmetic.                                               *)
(*                                                                         *)
(* Real-valued scores are fixed-point integers in thousandths              *)
(* (1000 stands for 1.0).                                                  *)
(***************************************************************************)
EXTENDS Integers, Sequences, FiniteSets, TLC

(***************************************************************************)
(* Bounds of the model.                                                    *)
(***************************************************************************)
NumFiles == 10
MaxBad == 1
MaxRuns == 3
MaxTags == 3
MaxWords == 3

(***************************************************************************)
(* Program constants.                                                      *)
(***************************************************************************)
SaveEvery == 10
SaveEveryAdvanced == 5

VARIABLES
    \* ---- batch runners (process_all_files / analyze_all_files) ----
    disk,              \* file name -> content of the file on disk
    kind,              \* audio file -> "ok" | "corrupt" | "silent"
    script,            \* the script the running process executes
    pc,                \* position of the running process
    ret,               \* where save_results returns to
    audio_files,       \* the list the loop iterates over
    idx,               \* loop position (1-based)
    analysis_results,  \* self.analysis_results
    processed_files,   \* self.processed_files
    new_analyses,      \* the local counter of process_all_files
    attempts,          \* audio file -> calls of the per-file analysis, this run
    failed,            \* files whose analysis returned None, this run
    durable,           \* entries in the report after the last completed flush
    lastExit,          \* how the previous process ended
    runs,              \* number of processes started so far
    recorded,          \* filenames ever recorded in the report file
    \* ---- Camelot compatibility (pure functions) ----
    camelot_key,       \* the key string handed to the compatibility functions
    compatible,        \* implementation -> the list it returned
    \* ---- VAD estimation from a metadata record (pure functions) ----
    metadata,          \* the metadata record handed to the estimator
    vad_metrics,       \* the record the estimator returned
    \* ---- filename-heuristic estimators run on a filename ----
    filename,          \* the filename being analysed (a string)
    words,             \* number of words the filename was put together from
    estimator,         \* which script analyses it
    records,           \* process -> the analysis record that process produced
    sleep_record,      \* the record of the name before "sleep" was replaced
    clock,             \* datetime.now()
    \* ---- signal-feature estimators ----
    features,          \* the statistics extracted from the waveform
    \* ---- database and music-library maintenance tools ----
    tracks,            \* the committed rows of the table tracks
    session,           \* the rows as the open transaction sees them
    tool,              \* the script the running process executes
    step,              \* position of the running process
    duplicates,        \* the dict analyze_duplicates returned
    dry_run,           \* the dry_run argument / --dry-run flag of this run
    results,           \* self.results of AudioSpectralAnalyzer (track ids)
    executed,          \* statements executed / files handled in this run
    commits,           \* commits that ended a transaction in this run
    snapshot,          \* the committed rows when the run started
    tool_runs,         \* number of tool processes started so far
    music_files,       \* the paths present in the music library
    similar,           \* pairs of files with overall similarity >= threshold
    files_to_remove,   \* removal_plan['files_to_remove'] (paths)
    response,          \* what the user typed at the prompt
    removed,           \* paths os.remove has removed in this run
    \* ---- therapeutic-tag classifiers (pure functions) ----
    tag_input,         \* the scores, tempo and mode handed to the classifier
    tag_classifier,    \* the script whose classifier was called
    tag_list,          \* the list the classifier returned
    \* ---- key mappers (pure functions) ----
    correlations,      \* what np.corrcoef gave for the 12 major and 12 minor keys
    key_mapper,        \* the script whose key mapper was called
    primary_key,       \* the key that was selected
    key_candidates,    \* the list detect_key_candidates returned
    \* ---- the title hash of analyze_new_uploads ----
    upload_file,       \* the name of the uploaded file (a string)
    title_hash,        \* hash(title) in the process that analyses it
    upload_analysis,   \* the entry analyze_new_files appended
    \* ---- quick_dedupe.py ----
    quick_files,       \* what music_path.glob("*.mp3") returned (names)
    quick_sizes,       \* name -> st_size
    quick_disk,        \* the names present in the music library
    quick_groups,      \* duplicate_groups
    quick_step,        \* position of the process
    quick_done,        \* paths of the removal loops handled so far
    \* ---- fingerprints of dedupe_tracks (pure functions) ----
    fp_tracks,         \* the rows handed to analyze_duplicates
    fp_duplicates,     \* the dict it returned
    fp_step,           \* whether it has returned
    \* ---- Camelot key mappers (pure functions) ----
    wheel_input,       \* the detected key and mode indications
    wheel_by,          \* the script whose mapper was called
    wheel_result       \* what the mapper returned

batchVars == <<disk, kind, script, pc, ret, audio_files, idx, analysis_results,
               processed_files, new_analyses, attempts, failed, durable,
               lastExit, runs, recorded>>

camelotVars == <<camelot_key, compatible>>

\* the variables the batch runners never touch
metaVars == <<metadata, vad_metrics>>
nameVars == <<filename, words, estimator, records, sleep_record, clock>>
signalVars == <<features>>
dedupeVars == <<tracks, session, tool, step, duplicates, dry_run, results,
                executed, commits, snapshot, tool_runs, music_files, similar,
                files_to_remove, response, removed>>
tagVars == <<tag_input, tag_classifier, tag_list>>
keyVars == <<correlations, key_mapper, primary_key, key_candidates>>
\* the variables of the other tools
hashVars == <<upload_file, title_hash, upload_analysis>>
quickVars == <<quick_files, quick_sizes, quick_disk, quick_groups, quick_step,
               quick_done>>
fpVars == <<fp_tracks, fp_duplicates, fp_step>>
\* the variables of the pure functions checked on their own
wheelVars == <<wheel_input, wheel_by, wheel_result>>
lateVars == <<fpVars, wheelVars>>
restVars == <<dedupeVars, tagVars, keyVars, hashVars, quickVars, lateVars>>
pureVars == <<camelotVars, metaVars, nameVars, signalVars, restVars>>

vars == <<batchVars, pureVars>>

(***************************************************************************)
(* Generic helpers.                                                        *)
(***************************************************************************)
Range(s) == {s[i] : i \in 1..Len(s)}

RECURSIVE SeqOfSet(_)
SeqOfSet(S) ==
    IF S = {} THEN <<>>
    ELSE LET m == CHOOSE x \in S : \A y \in S : x <= y
         IN <<m>> \o SeqOfSet(S \ {m})

(***************************************************************************)
(* The disk.                                                               *)
(***************************************************************************)
ReportFile == "comprehensive_audio_analysis_report.json"
WinterReportFile == "winter_audio_analysis_report.json"
FileNames == {ReportFile, WinterReportFile}

AudioFiles == 1..NumFiles
Kinds == {"ok", "corrupt", "silent"}
LibrosaScripts ==
    {"run_complete_vad_analysis", "robust_vad_camelot_analyzer",
     "complete_vad_camelot_processor"}
FilenameScripts == {"audio_analyzer", "comprehensive_audio_analyzer"}
Scripts == LibrosaScripts \cup FilenameScripts

\* the audio files whose names match patterns_to_analyze or specific_files,
\* sorted(list(set(found_files)))
find_all_new_files == {f \in AudioFiles : f <= 2}

NoFile == [state |-> "absent", key |-> "", items |-> <<>>]
\* open(name, "w") has truncated the file and json.dump has not finished
Truncated == [state |-> "partial", key |-> "", items |-> <<>>]
JsonFile(k, items) == [state |-> "json", key |-> k, items |-> items]

Entry(f, s) == [filename |-> f, by |-> s]
Filenames(items) == {items[i].filename : i \in 1..Len(items)}

\* json.load + existing.get("comprehensive_analyses", []) ; what the
\* try/except FileNotFoundError of load_existing_analysis makes of the file
load_existing_analysis(content) ==
    IF content.state = "absent"
      THEN [raised |-> FALSE, items |-> <<>>]
    ELSE IF content.state = "partial"
      THEN [raised |-> TRUE, items |-> <<>>]       \* json.JSONDecodeError
    ELSE IF content.key = "comprehensive_analyses"
      THEN [raised |-> FALSE, items |-> content.items]
    ELSE [raised |-> FALSE, items |-> <<>>]

\* "if file_path.name in self.processed_files" / "if f.name not in ..."
AlreadyProcessedNever(f, pf) == FALSE
AlreadyProcessed(f, pf) == f \in pf

\* the result of the per-file analysis for a file of kind k:
\* "record" (a dict), "none" (exception caught, None returned) or
\* "raise" (exception leaves the per-file step uncaught)
AnalyzeLibrosa(k) ==
    IF k = "corrupt" THEN "none" ELSE "record"

AnalyzeAudioAnalyzer(k) ==
    IF k = "corrupt" THEN "none"
    ELSE IF k = "silent" THEN "raise"
    ELSE "record"

\* advanced_audio_analysis builds its result with
\* self.generate_dj_mixing_recommendations(...), a method the class does
\* not define: the AttributeError is caught by "except Exception" and None
\* is returned, whatever the file
advanced_audio_analysis(k) == "none"

\* analyze_all_new_files reads the name of the file only
AnalyzeComprehensive(k) == "record"

AnalyzeOutcome(s, k) ==
    IF s = "complete_vad_camelot_processor" THEN advanced_audio_analysis(k)
    ELSE IF s \in LibrosaScripts THEN AnalyzeLibrosa(k)
    ELSE IF s = "comprehensive_audio_analyzer" THEN AnalyzeComprehensive(k)
    ELSE AnalyzeAudioAnalyzer(k)

OutputFile(s) == IF s = "audio_analyzer" THEN WinterReportFile ELSE ReportFile
OutputKey(s) ==
    IF s \in LibrosaScripts THEN "comprehensive_analyses"
    ELSE IF s = "comprehensive_audio_analyzer" THEN "comprehensive_audio_analyses"
    ELSE "audio_analyses"

\* "if new_analyses % 10 == 0" / "if new_analyses % 5 == 0"
save_interval(s) ==
    IF s = "complete_vad_camelot_processor" THEN SaveEveryAdvanced ELSE SaveEvery

ShouldSaveNever(s, n) == FALSE
ShouldSave(s, n) == n % save_interval(s) = 0

\* new_files = [f for f in audio_files if f.name not in self.processed_files]
RECURSIVE new_files(_, _)
new_files(s, pf) ==
    IF s = <<>> THEN <<>>
    ELSE IF AlreadyProcessed(Head(s), pf) THEN new_files(Tail(s), pf)
         ELSE <<Head(s)>> \o new_files(Tail(s), pf)

(***************************************************************************)
(* The values of the variables of the parts a specification leaves out.    *)
(***************************************************************************)
None == [none |-> TRUE]

Implementations ==
    {"get_harmonic_compatibility", "get_compatible_keys", "analyze_new_files"}

NotRun == <<"not run">>

CamelotIdle ==
    /\ camelot_key = <<>>
    /\ compatible = [i \in Implementations |-> NotRun]

MetaIdle ==
    /\ metadata = None
    /\ vad_metrics = None

Procs == {1, 2}

SignalIdle == features = None

NameIdle ==
    /\ filename = <<>>
    /\ words = 0
    /\ estimator = "none"
    /\ records = [p \in Procs |-> None]
    /\ sleep_record = None
    /\ clock = 0

\* the batch variables while no batch runner is modelled
BatchIdle ==
    /\ disk = [n \in FileNames |-> NoFile]
    /\ kind = [f \in AudioFiles |-> "ok"]
    /\ script = "none"
    /\ pc = "off"
    /\ ret = "none"
    /\ audio_files = <<>>
    /\ idx = 0
    /\ analysis_results = <<>>
    /\ processed_files = {}
    /\ new_analyses = 0
    /\ attempts = [f \in AudioFiles |-> 0]
    /\ failed = {}
    /\ durable = <<>>
    /\ lastExit = "none"
    /\ runs = 0
    /\ recorded = {}

MusicFiles == 1..4

DedupeIdle ==
    /\ tracks = {}
    /\ session = {}
    /\ tool = "none"
    /\ step = "off"
    /\ duplicates = <<>>
    /\ dry_run = "unset"
    /\ results = <<>>
    /\ executed = 0
    /\ commits = 0
    /\ snapshot = {}
    /\ tool_runs = 0
    /\ music_files = MusicFiles
    /\ similar = {}
    /\ files_to_remove = <<>>
    /\ response = <<>>
    /\ removed = {}

TagIdle ==
    /\ tag_input = None
    /\ tag_classifier = "none"
    /\ tag_list = <<>>

KeyIdle ==
    /\ correlations = None
    /\ key_mapper = "none"
    /\ primary_key = ""
    /\ key_candidates = <<>>

HashIdle ==
    /\ upload_file = <<>>
    /\ title_hash = 0
    /\ upload_analysis = <<>>

QuickIdle ==
    /\ quick_files = <<>>
    /\ quick_sizes = <<>>
    /\ quick_disk = {}
    /\ quick_groups = <<>>
    /\ quick_step = "off"
    /\ quick_done = 0

FpIdle ==
    /\ fp_tracks = <<>>
    /\ fp_duplicates = <<>>
    /\ fp_step = "off"

WheelIdle ==
    /\ wheel_input = None
    /\ wheel_by = "none"
    /\ wheel_result = None

LateIdle == FpIdle /\ WheelIdle

RestIdle == DedupeIdle /\ TagIdle /\ KeyIdle /\ HashIdle /\ QuickIdle /\ LateIdle

(***************************************************************************)
(* Strings: a Python str is a sequence of one-character strings.           *)
(***************************************************************************)
DigitChars == <<"0", "1", "2", "3", "4", "5", "6", "7", "8", "9">>
IsDigit(c) == \E d \in 1..10 : DigitChars[d] = c
DigitValue(c) == (CHOOSE d \in 1..10 : DigitChars[d] = c) - 1

\* str(n) / f"{n}" for an integer n
RECURSIVE str(_)
str(n) ==
    IF n < 0 THEN <<"-">> \o str(0 - n)
    ELSE IF n < 10 THEN <<DigitChars[n + 1]>>
    ELSE str(n \div 10) \o <<DigitChars[(n % 10) + 1]>>

\* int(s) for a string of decimal digits; ok = FALSE stands for ValueError
RECURSIVE DigitsValue(_)
DigitsValue(s) ==
    IF s = <<>> THEN 0
    ELSE DigitsValue(SubSeq(s, 1, Len(s) - 1)) * 10 + DigitValue(s[Len(s)])

int(s) ==
    IF s # <<>> /\ \A i \in 1..Len(s) : IsDigit(s[i])
      THEN [ok |-> TRUE, value |-> DigitsValue(s)]
      ELSE [ok |-> FALSE, value |-> 0]

(***************************************************************************)
(* Camelot compatibility.                                                  *)
(***************************************************************************)
\* f"{number}{letter}"
CamelotString(number, letter) == str(number) \o <<letter>>

\* next_num = 1 if number == 12 else number + 1
next_num(number) == IF number = 12 THEN 1 ELSE number + 1
\* prev_num = 12 if number == 1 else number - 1
prev_num(number) == IF number = 1 THEN 12 ELSE number - 1

\* run_complete_vad_analysis.py
get_harmonic_compatibility(key) ==
    IF Len(key) < 2 THEN <<>>
    ELSE LET parsed == int(SubSeq(key, 1, Len(key) - 1))
             number == parsed.value
             letter == key[Len(key)]
         IN IF ~parsed.ok THEN <<>>
            ELSE <<key,
                   CamelotString(next_num(number), letter),
                   CamelotString(prev_num(number), letter),
                   IF letter = "A" THEN CamelotString(number, "B")
                                   ELSE CamelotString(number, "A")>>

\* robust_vad_camelot_analyzer.py
get_compatible_keys(key) ==
    IF Len(key) < 2 THEN <<>>
    ELSE LET parsed == int(SubSeq(key, 1, Len(key) - 1))
             number == parsed.value
             letter == key[Len(key)]
             relative_letter == IF letter = "B" THEN "A" ELSE "B"
         IN IF ~parsed.ok THEN <<key>>
            ELSE <<key,
                   CamelotString(next_num(number), letter),
                   CamelotString(prev_num(number), letter),
                   CamelotString(number, relative_letter)>>

\* analyze_new_uploads.py: (key_num % 12) + 1 and ((key_num - 2) % 12) + 1
NextModular(key_num) == (key_num % 12) + 1
PrevModularNoWrap(key_num) == ((key_num - 1) % 12)
PrevModular(key_num) == ((key_num - 2) % 12) + 1

harmonic_compatibility(estimated_key) ==
    LET key_num == int(SubSeq(estimated_key, 1, Len(estimated_key) - 1)).value
        key_letter == estimated_key[Len(estimated_key)]
        other_letter == IF key_letter = "A" THEN "B" ELSE "A"
    IN <<estimated_key,
         CamelotString(NextModular(key_num), key_letter),
         CamelotString(PrevModular(key_num), key_letter),
         CamelotString(key_num, other_letter)>>

CamelotKeys == {CamelotString(n, x) : n \in 1..12, x \in {"A", "B"}}

InitCamelot ==
    /\ camelot_key \in CamelotKeys
    /\ compatible = [i \in Implementations |-> NotRun]
    /\ BatchIdle
    /\ MetaIdle
    /\ NameIdle
    /\ SignalIdle
    /\ RestIdle

RunGetHarmonicCompatibility ==
    /\ compatible["get_harmonic_compatibility"] = NotRun
    /\ compatible' = [compatible EXCEPT !["get_harmonic_compatibility"] =
                         get_harmonic_compatibility(camelot_key)]
    /\ UNCHANGED <<camelot_key, batchVars, metaVars, nameVars, signalVars, restVars>>

RunGetCompatibleKeys ==
    /\ compatible["get_compatible_keys"] = NotRun
    /\ compatible' = [compatible EXCEPT !["get_compatible_keys"] =
                         get_compatible_keys(camelot_key)]
    /\ UNCHANGED <<camelot_key, batchVars, metaVars, nameVars, signalVars, restVars>>

RunAnalyzeNewFilesCompatibility ==
    /\ compatible["analyze_new_files"] = NotRun
    /\ compatible' = [compatible EXCEPT !["analyze_new_files"] =
                         harmonic_compatibility(camelot_key)]
    /\ UNCHANGED <<camelot_key, batchVars, metaVars, nameVars, signalVars, restVars>>

NextCamelot ==
    \/ RunGetHarmonicCompatibility
    \/ RunGetCompatibleKeys
    \/ RunAnalyzeNewFilesCompatibility

SpecCamelot == InitCamelot /\ [][NextCamelot]_vars

\* the four keys the wheel makes compatible with number n, letter x:
\* the key itself, the two neighbours on the 12-step circle with the same
\* letter, and the same number with the other letter
WheelCompatible(n, x) ==
    {CamelotString(m, y) : <<m, y>> \in
        {t \in (1..12) \X {"A", "B"} :
            \/ t[1] = n
            \/ t[2] = x /\ (t[1] - n) % 12 \in {1, 11}}}

KeyNumber(key) == int(SubSeq(key, 1, Len(key) - 1)).value
KeyLetter(key) == key[Len(key)]

\* C4: for each of the 24 Camelot keys every implementation returns
\* exactly the key, its two wheel neighbours (12 wraps to 1, 1 to 12) with
\* the same letter and the same number with the other letter; the three
\* implementations return the same list; for 8A it is 8A, 9A, 7A, 8B.
C4_CompatibilitySet ==
    /\ \A i \in Implementations :
          compatible[i] # NotRun =>
             /\ Len(compatible[i]) = 4
             /\ Range(compatible[i]) =
                   WheelCompatible(KeyNumber(camelot_key), KeyLetter(camelot_key))
             /\ camelot_key = <<"8", "A">> =>
                   compatible[i] = << <<"8", "A">>, <<"9", "A">>,
                                      <<"7", "A">>, <<"8", "B">> >>
    /\ \A i, j \in Implementations :
          compatible[i] # NotRun /\ compatible[j] # NotRun =>
             compatible[i] = compatible[j]

\* all three implementations have run on the wrapping key 1A
C4_Witness ==
    /\ camelot_key = <<"1", "A">>
    /\ \A i \in Implementations : compatible[i] # NotRun
    /\ <<"1", "2", "A">> \in Range(compatible["analyze_new_files"])

(***************************************************************************)
(* VAD estimation from a metadata record.                                  *)
(***************************************************************************)
Min(a, b) == IF a < b THEN a ELSE b
Max(a, b) == IF a > b THEN a ELSE b

\* max(0.0, min(1.0, x))
ClampNoUpper(x) == Max(0, x)
Clamp(x) == Max(0, Min(1000, x))

\* "x += d" under "if cond:"
If(cond, d) == IF cond THEN d ELSE 0

\* an int-or-None field is <<>> for None and <<n>> for the int n
NoInt == <<>>
SomeInt(n) == <<n>>
IntOf(x) == x[1]
\* metadata.get(field) is truthy
Truthy(x) == x # NoInt /\ IntOf(x) # 0
HasBpm(m) == Truthy(m.bpm)

\* simple_audio_metadata.py
_calculate_confidence(m) ==
    Min(1000, 500 + If(HasBpm(m), 200)
                  + If(m.therapeutic_purposes # {}, 200)
                  + If(m.genres # {}, 100)
                  + If(m.time_signature, 100))

estimate_vad_metrics(m) ==
    LET P == m.therapeutic_purposes
        G == m.genres
        v0 == IF "sleep" \in P THEN 400 ELSE IF "energy" \in P THEN 700
              ELSE IF "relaxation" \in P THEN 600 ELSE 500
        e0 == IF "sleep" \in P THEN 200 ELSE IF "energy" \in P THEN 700
              ELSE IF "relaxation" \in P THEN 300 ELSE 500
        d0 == IF "sleep" \in P THEN 300 ELSE IF "energy" \in P THEN 600
              ELSE IF "relaxation" \in P THEN 400 ELSE 500
        bpm == IntOf(m.bpm)
        e1 == IF ~HasBpm(m) THEN e0
              ELSE IF bpm < 60 THEN Min(e0, 250)
              ELSE IF bpm < 80 THEN Min(e0, 400)
              ELSE IF bpm > 120 THEN Max(e0, 700)
              ELSE e0
        mv == m.movement_number
        first == Truthy(mv) /\ IntOf(mv) = 1
        middle == Truthy(mv) /\ IntOf(mv) \in {2, 3}
        valence == v0 - If("nocturne" \in G, 100) - If("modal" \in G, 50)
                      - If(m.winter_themed, 50) - If(middle, 50)
        energy_arousal == e1 - If("nocturne" \in G, 100)
                             - If(m.winter_themed, 50) - If(middle, 50)
        dominance == d0 + If("classical" \in G, 100) + If(first, 100)
    IN [valence |-> Clamp(valence),
        energy_arousal |-> Clamp(energy_arousal),
        dominance |-> Clamp(dominance),
        confidence_score |-> _calculate_confidence(m)]

\* comprehensive_audio_analyzer.py
_calculate_confidence_score(m) ==
    Min(1000, 500 + If(HasBpm(m), 150)
                  + If(m.therapeutic_purposes # {}, 200)
                  + If(m.genres # {}, 100)
                  + If(m.instruments # {}, 100)
                  + If(m.mood_indicators # {}, 100)
                  + If(m.musical_characteristics # {}, 50))

PurposeBase(P, sleep, energy, relaxation, awakening, stillness) ==
    IF "sleep" \in P THEN sleep
    ELSE IF "energy" \in P THEN energy
    ELSE IF "relaxation" \in P THEN relaxation
    ELSE IF "awakening" \in P THEN awakening
    ELSE IF "stillness" \in P THEN stillness
    ELSE 500

calculate_precise_vad_metrics(m) ==
    LET P == m.therapeutic_purposes
        G == m.genres
        C == m.musical_characteristics
        M == m.mood_indicators
        I == m.instruments
        v0 == PurposeBase(P, 350, 720, 620, 780, 450)
        e0 == PurposeBase(P, 150, 750, 280, 680, 120)
        d0 == PurposeBase(P, 250, 650, 380, 580, 220)
        bpm == IntOf(m.bpm)
        e1 == IF ~HasBpm(m) THEN e0
              ELSE IF bpm <= 58 THEN Min(e0, 200)
              ELSE IF bpm < 70 THEN Min(e0, 350)
              ELSE IF bpm > 120 THEN Max(e0, 700)
              ELSE e0
        d1 == IF ~HasBpm(m) THEN d0
              ELSE IF bpm <= 58 THEN Min(d0, 300)
              ELSE IF bpm < 70 THEN d0
              ELSE IF bpm > 120 THEN Max(d0, 600)
              ELSE d0
        valence == v0 + If("baroque" \in G, 50) + If("classical" \in G, 30)
                      + If("duet" \in G, 80)
                      + If("dialogic" \in C, 50) + If("reverie" \in C, 80)
                      - If("winter_themed" \in C, 80) + If("arioso" \in C, 120)
                      + If("energetic" \in M, 100) + If("peaceful" \in M, 50)
                      + If("uplifting" \in M, 150)
                      + If("guitar" \in I, 30) + If("voice" \in I, 80)
        energy_arousal == e1 + If("rock" \in G, 150)
                      - If("reverie" \in C, 100) - If("winter_themed" \in C, 50)
                      - If("contemplative" \in M, 100)
                      + If("energetic" \in M, 150) - If("peaceful" \in M, 150)
                      + If("uplifting" \in M, 100)
                      + If(m.is_remix, 50)
        dominance == d1 + If("baroque" \in G, 100) + If("classical" \in G, 80)
                      + If("rock" \in G, 120) - If("instrumental" \in G, 50)
                      + If("duet" \in G, 50)
                      + If("dialogic" \in C, 100) - If("reverie" \in C, 80)
                      + If("arioso" \in C, 80)
                      - If("contemplative" \in M, 50) - If("peaceful" \in M, 100)
                      + If("voice" \in I, 50)
    IN [valence |-> Clamp(valence),
        energy_arousal |-> Clamp(energy_arousal),
        dominance |-> Clamp(dominance),
        confidence_score |-> _calculate_confidence_score(m)]

\* the tags a metadata record can carry, as <<field, tag>>
Tags ==
    ({"therapeutic_purposes"} \X
        {"sleep", "energy", "relaxation", "awakening", "stillness", "focus"})
    \cup ({"genres"} \X
        {"baroque", "classical", "rock", "instrumental", "duet", "nocturne",
         "modal"})
    \cup ({"musical_characteristics"} \X
        {"dialogic", "reverie", "winter_themed", "arioso"})
    \cup ({"mood_indicators"} \X
        {"contemplative", "energetic", "peaceful", "uplifting"})
    \cup ({"instruments"} \X {"guitar", "voice"})
    \cup ({"flags"} \X {"is_remix", "winter_themed", "time_signature"})

BpmValues == {NoInt} \cup {SomeInt(n) : n \in {0, 58, 65, 100, 121}}
MovementValues == {NoInt} \cup {SomeInt(n) : n \in {1, 2}}

RECURSIVE SubsetsUpTo(_, _)
SubsetsUpTo(U, k) ==
    IF k = 0 THEN {{}}
    ELSE LET smaller == SubsetsUpTo(U, k - 1)
         IN smaller \cup {t \cup {x} : t \in smaller, x \in U}

Field(tags, f) == {t[2] : t \in {u \in tags : u[1] = f}}

MetadataOf(tags, bpm, movement) ==
    [therapeutic_purposes |-> Field(tags, "therapeutic_purposes"),
     genres |-> Field(tags, "genres"),
     musical_characteristics |-> Field(tags, "musical_characteristics"),
     mood_indicators |-> Field(tags, "mood_indicators"),
     instruments |-> Field(tags, "instruments"),
     is_remix |-> <<"flags", "is_remix">> \in tags,
     winter_themed |-> <<"flags", "winter_themed">> \in tags,
     time_signature |-> <<"flags", "time_signature">> \in tags,
     bpm |-> bpm,
     movement_number |-> movement]

InitMeta ==
    /\ \E tags \in SubsetsUpTo(Tags, MaxTags), bpm \in BpmValues,
          movement \in MovementValues :
             metadata = MetadataOf(tags, bpm, movement)
    /\ vad_metrics = None
    /\ BatchIdle
    /\ CamelotIdle
    /\ NameIdle
    /\ SignalIdle
    /\ RestIdle

EstimateVadMetrics ==
    /\ vad_metrics = None
    /\ vad_metrics' = estimate_vad_metrics(metadata)
    /\ UNCHANGED <<metadata, batchVars, camelotVars, nameVars, signalVars, restVars>>

CalculatePreciseVadMetrics ==
    /\ vad_metrics = None
    /\ vad_metrics' = calculate_precise_vad_metrics(metadata)
    /\ UNCHANGED <<metadata, batchVars, camelotVars, nameVars, signalVars, restVars>>

NextMeta ==
    \/ EstimateVadMetrics
    \/ CalculatePreciseVadMetrics

SpecMeta == InitMeta /\ [][NextMeta]_vars

UnitInterval == 0..1000

\* C2: for every metadata record the valence, energy_arousal and dominance
\* returned by estimate_vad_metrics and calculate_precise_vad_metrics lie
\* in [0.0, 1.0], and so does the confidence score.
C2_VadAndConfidenceInUnitInterval ==
    vad_metrics # None =>
        /\ vad_metrics.valence \in UnitInterval
        /\ vad_metrics.energy_arousal \in UnitInterval
        /\ vad_metrics.dominance \in UnitInterval
        /\ vad_metrics.confidence_score \in UnitInterval

\* an energy + rock + energetic record: the raw arousal 0.75 + 0.15 + 0.15
\* exceeds 1.0 and the estimator returned 1.0
C2_Witness ==
    /\ vad_metrics # None
    /\ "energy" \in metadata.therapeutic_purposes
    /\ "rock" \in metadata.genres
    /\ "energetic" \in metadata.mood_indicators
    /\ vad_metrics.energy_arousal = 1000

(***************************************************************************)
(* Filenames.  A filename is a string; a keyword that the scripts look for *)
(* with "in" is written as one group of characters.                        *)
(***************************************************************************)
Whitespace == {" "}

LowerChar(c) ==
    IF c = "B" THEN "b" ELSE IF c = "P" THEN "p" ELSE IF c = "M" THEN "m"
    ELSE IF c = "Y" THEN "y" ELSE c

\* filename.lower()
lower(s) == [i \in 1..Len(s) |-> LowerChar(s[i])]

\* <<group, keyword>>: the keyword is a proper substring of the group
Substrings ==
    {<<"energize", "energiz">>, <<"re-energize", "energize">>,
     <<"re-energize", "energiz">>, <<"re-energize", "re-energiz">>,
     <<"relaxation", "relax">>, <<"peaceful", "peace">>}

\* keyword in s
Contains(s, keyword) ==
    \E i \in 1..Len(s) : s[i] = keyword \/ <<s[i], keyword>> \in Substrings

\* any(word in s for word in keywords)
AnyIn(s, keywords) == \E k \in keywords : Contains(s, k)

\* s.replace(old, new) for keyword groups
replace(s, old, new) == [i \in 1..Len(s) |-> IF s[i] = old THEN new ELSE s[i]]

\* the characters of s from position i on are the literal lit
LiteralAt(s, i, lit) ==
    /\ i + Len(lit) - 1 <= Len(s)
    /\ SubSeq(s, i, i + Len(lit) - 1) = lit

DigitsAt(s, i, k) ==
    /\ k >= 1
    /\ i + k - 1 <= Len(s)
    /\ \A j \in i..(i + k - 1) : IsDigit(s[j])

WhitespaceAt(s, i, w) ==
    /\ i + w - 1 <= Len(s)
    /\ \A j \in i..(i + w - 1) : s[j] \in Whitespace

Least(S) == CHOOSE x \in S : \A y \in S : x <= y
Greatest(S) == CHOOSE x \in S : \A y \in S : y <= x

\* r'(\d+)\s*bpm' matches at i with k digits and w whitespace characters
BpmMatchAdjacent(s, i, k, w) ==
    /\ w = 0
    /\ DigitsAt(s, i, k)
    /\ LiteralAt(s, i + k, <<"b", "p", "m">>)
BpmMatch(s, i, k, w) ==
    /\ DigitsAt(s, i, k)
    /\ WhitespaceAt(s, i + k, w)
    /\ LiteralAt(s, i + k + w, <<"b", "p", "m">>)

\* bpm_match = re.search(r'(\d+)\s*bpm', s): the leftmost start, the
\* longest digit group there; int(bpm_match.group(1)) if bpm_match else None
bpm_match(s) ==
    LET L == Len(s)
        Groups(i) == {k \in 1..(L - i) : \E w \in 0..(L - i) : BpmMatch(s, i, k, w)}
        starts == {i \in 1..L : IsDigit(s[i]) /\ Groups(i) # {}}
    IN IF starts = {} THEN NoInt
       ELSE LET i == Least(starts)
                k == Greatest(Groups(i))
            IN SomeInt(int(SubSeq(s, i, i + k - 1)).value)

\* re.search(r'movement\s*(\d+)', s)
movement_match(s) ==
    LET L == Len(s)
        Spaces(i) == {w \in 0..L : /\ WhitespaceAt(s, i + 1, w)
                                    /\ DigitsAt(s, i + 1 + w, 1)}
        starts == {i \in 1..L : s[i] = "movement" /\ Spaces(i) # {}}
    IN IF starts = {} THEN NoInt
       ELSE LET i == Least(starts)
                w == Greatest(Spaces(i))
                k == Greatest({x \in 1..L : DigitsAt(s, i + 1 + w, x)})
            IN SomeInt(int(SubSeq(s, i + 1 + w, i + w + k)).value)

\* re.search(r'(\d+)_(\d+)\s*time', s) / r'(\d+)[_/](\d+)\s*time' matches
time_sig_match(s, separators) ==
    \E i \in 1..Len(s) :
        /\ IsDigit(s[i])
        /\ \E k1 \in 1..Len(s) :
              /\ DigitsAt(s, i, k1)
              /\ i + k1 <= Len(s)
              /\ s[i + k1] \in separators
              /\ \E k2 \in 1..Len(s) :
                    /\ DigitsAt(s, i + k1 + 1, k2)
                    /\ \E w \in 0..Len(s) :
                          /\ WhitespaceAt(s, i + k1 + 1 + k2, w)
                          /\ LiteralAt(s, i + k1 + 1 + k2 + w, <<"time">>)

\* re.search(r'\((\d+)\)', filename)
_extract_version_number(s) ==
    LET L == Len(s)
        Groups(i) == {k \in 1..L : /\ s[i] = "("
                                   /\ DigitsAt(s, i + 1, k)
                                   /\ LiteralAt(s, i + 1 + k, <<")">>)}
        starts == {i \in 1..L : Groups(i) # {}}
    IN IF starts = {} THEN NoInt
       ELSE LET i == Least(starts)
                k == Greatest(Groups(i))
            IN SomeInt(int(SubSeq(s, i + 1, i + k)).value)

\* for tag, keywords in mapping.items(): if any(keyword in s ...): append(tag)
Detect(mapping, s) == {t[1] : t \in {u \in mapping : Contains(s, u[2])}}

(***************************************************************************)
(* simple_audio_metadata.py: analyze_filename.                             *)
(***************************************************************************)
analyze_filename(fname, now) ==
    LET filename_lower == lower(fname)
        winter_themed == Contains(filename_lower, "winter")
    IN [original_filename |-> fname,
        analysis_date |-> now,
        file_category |-> "winter_classical_therapeutic",
        bpm |-> bpm_match(filename_lower),
        time_signature |-> time_sig_match(filename_lower, {"_"}),
        genres |-> Detect({<<"classical", "classical">>, <<"classical", "baroque">>,
                           <<"modal", "phyrgian">>, <<"nocturne", "nocturne">>,
                           <<"opera", "opera">>}, filename_lower),
        instruments |-> Detect({<<"guitar", "guitar">>, <<"piano", "piano">>,
                                <<"instrumental", "instrumental">>}, filename_lower),
        therapeutic_purposes |->
            Detect({<<"sleep", "sleep">>, <<"energy", "re-energiz">>,
                    <<"energy", "energiz">>, <<"relaxation", "relaxation">>},
                   filename_lower),
        movement_number |-> movement_match(filename_lower),
        winter_themed |-> winter_themed,
        seasonal_classification |-> IF winter_themed THEN "winter" ELSE "general"]

(***************************************************************************)
(* comprehensive_audio_analyzer.py: analyze_filename_metadata.             *)
(***************************************************************************)
_determine_category(fname) ==
    LET filename_lower == lower(fname)
    IN IF Contains(filename_lower, "winter") THEN "winter_classical_therapeutic"
       ELSE IF AnyIn(filename_lower, {"dialogic", "reverie"})
         THEN "baroque_classical_therapeutic"
       ELSE IF Contains(filename_lower, "rock") THEN "rock_instrumental_therapeutic"
       ELSE IF AnyIn(filename_lower, {"awakening", "stillness"})
         THEN "vocal_baroque_therapeutic"
       ELSE "general_therapeutic"

_detect_genres(filename_lower) ==
    Detect({<<"classical", "classical">>, <<"classical", "baroque">>,
            <<"rock", "rock">>, <<"instrumental", "instrumental">>,
            <<"opera", "opera">>, <<"duet", "duet">>, <<"modal", "phyrgian">>,
            <<"modal", "dorian">>, <<"modal", "mixolydian">>,
            <<"nocturne", "nocturne">>, <<"arioso", "arioso">>,
            <<"1970s", "1970s">>}, filename_lower)

_detect_instruments(filename_lower) ==
    Detect({<<"guitar", "guitar">>, <<"piano", "piano">>, <<"strings", "strings">>,
            <<"voice", "voice">>, <<"voice", "vocal">>, <<"voice", "female">>,
            <<"voice", "male">>, <<"duet", "duet">>, <<"duet", "two voices">>,
            <<"instrumental", "instrumental">>}, filename_lower)

_detect_therapeutic_purposes(filename_lower) ==
    Detect({<<"sleep", "sleep">>, <<"relaxation", "relaxation">>,
            <<"energy", "re-energize">>, <<"energy", "energize">>,
            <<"energy", "energy">>, <<"focus", "focus">>,
            <<"meditation", "meditation">>, <<"awakening", "awakening">>,
            <<"stillness", "stillness">>, <<"contemplation", "contemplation">>},
           filename_lower)

_detect_musical_characteristics(filename_lower) ==
    Detect({<<"dialogic", "dialogic">>, <<"reverie", "reverie">>,
            <<"movement", "movement">>, <<"remix", "remix">>,
            <<"arioso", "arioso">>, <<"embrace", "embrace">>,
            <<"winter_themed", "winter">>, <<"seasonal", "winter">>,
            <<"seasonal", "spring">>, <<"seasonal", "summer">>,
            <<"seasonal", "autumn">>}, filename_lower)

_detect_mood_indicators(filename_lower) ==
    Detect({<<"peaceful", "stillness">>, <<"peaceful", "peace">>,
            <<"energetic", "re-energize">>, <<"energetic", "energy">>,
            <<"contemplative", "reverie">>, <<"contemplative", "dialogic">>,
            <<"awakening", "awakening">>, <<"embracing", "embrace">>,
            <<"introspective", "winter">>, <<"introspective", "nocturne">>,
            <<"uplifting", "awakening">>, <<"calming", "sleep">>,
            <<"calming", "relaxation">>}, filename_lower)

analyze_filename_metadata(fname, now) ==
    LET filename_lower == lower(fname)
    IN [original_filename |-> fname,
        analysis_date |-> now,
        file_category |-> _determine_category(fname),
        bpm |-> bpm_match(filename_lower),
        time_signature |-> time_sig_match(filename_lower, {"_", "/"}),
        is_remix |-> Contains(filename_lower, "remix"),
        version_number |-> _extract_version_number(fname),
        genres |-> _detect_genres(filename_lower),
        instruments |-> _detect_instruments(filename_lower),
        therapeutic_purposes |-> _detect_therapeutic_purposes(filename_lower),
        musical_characteristics |-> _detect_musical_characteristics(filename_lower),
        mood_indicators |-> _detect_mood_indicators(filename_lower)]

(***************************************************************************)
(* audio_analyzer.py: _parse_filename_metadata.                            *)
(***************************************************************************)
_parse_filename_metadata(fname) ==
    LET filename_lower == lower(fname)
    IN [genres |->
            Detect({<<"classical", "classical">>, <<"classical", "baroque">>,
                    <<"classical", "opera">>, <<"classical", "cantata">>,
                    <<"electronic", "electronic">>, <<"electronic", "edm">>,
                    <<"electronic", "house">>, <<"jazz", "jazz">>,
                    <<"jazz", "big band">>, <<"indie_pop", "indie">>,
                    <<"indie_pop", "pop">>, <<"flamenco", "flamenco">>,
                    <<"rock", "rock">>, <<"bluegrass", "bluegrass">>},
                   filename_lower),
        therapeutic_purposes |->
            Detect({<<"sleep", "sleep">>, <<"sleep", "relaxation">>,
                    <<"sleep", "calm">>, <<"focus", "focus">>,
                    <<"focus", "concentration">>, <<"energy", "energize">>,
                    <<"energy", "re-energize">>, <<"energy", "energy">>,
                    <<"energy", "hiit">>, <<"pain_relief", "pain">>,
                    <<"pain_relief", "relief">>, <<"meditation", "meditation">>},
                   filename_lower),
        instruments |->
            Detect({<<"guitar", "guitar">>, <<"guitar", "acoustic">>,
                    <<"piano", "piano">>, <<"piano", "keyboard">>,
                    <<"strings", "strings">>, <<"vocal", "voice">>,
                    <<"vocal", "vocal">>, <<"vocal", "duet">>,
                    <<"instrumental", "instrumental">>}, filename_lower),
        bpm |-> bpm_match(filename_lower),
        is_winter_themed |-> Contains(filename_lower, "winter"),
        is_nocturne |-> Contains(filename_lower, "nocturne"),
        is_movement |-> Contains(filename_lower, "movement")]

(***************************************************************************)
(* analyze_new_uploads.py: the body of the loop of analyze_new_files.      *)
(***************************************************************************)
TimestampPrefix == <<"_", "1", "7", "5", "4", "9", "1", "2", "7", "0", "9">>
TimestampSuffix == TimestampPrefix \o <<"1", "2", "3", ".mp3">>

\* re.sub(r'_1754912709\d+\.mp3$', '', filename)
StripTimestamp(fname) ==
    LET L == Len(fname)
        starts == {i \in 1..L : \E k \in 1..L :
                      /\ LiteralAt(fname, i, TimestampPrefix)
                      /\ DigitsAt(fname, i + Len(TimestampPrefix), k)
                      /\ i + Len(TimestampPrefix) + k = L
                      /\ fname[L] = ".mp3"}
    IN IF starts = {} THEN fname
       ELSE SubSeq(fname, 1, Least(starts) - 1)

\* the remainder with the sign of the dividend, as C computes it
truncated_remainder(a, n) == IF a >= 0 THEN a % n ELSE 0 - ((0 - a) % n)

\* Python's a % n for a positive n: the result is in 0..n-1 for every a
mod(a, n) == a % n

\* f'{(hash(title) % 12) + 1}{"A" if hash(title) % 2 else "B"}'
estimated_key(h) ==
    CamelotString((h % 12) + 1, IF h % 2 # 0 THEN "A" ELSE "B")

\* hash(title) is the argument h: CPython salts str hashes per process
analysis_entry(fname, h) ==
    LET title == StripTimestamp(fname)
        title_lower == lower(title)
        has(k) == Contains(title_lower, k)
        detected == Detect({<<"baroque", "baroque">>, <<"classical", "classical">>,
                            <<"jazz", "jazz">>, <<"house", "house">>,
                            <<"edm", "edm">>, <<"pop", "pop">>, <<"funk", "funk">>,
                            <<"rock", "rock">>, <<"bluegrass", "bluegrass">>},
                           title_lower)
        calm == has("sleep") \/ has("meditation")
        boost == has("energize") \/ has("focus")
        valence == IF calm THEN 400 + mod(h, 100) * 2
                   ELSE IF boost THEN 600 + mod(h, 100) * 2
                   ELSE IF has("relax") THEN 500 + mod(h, 150) * 2
                   ELSE 500
        arousal == IF calm THEN 50 + mod(h, 50) * 2
                   ELSE IF boost THEN 500 + mod(h, 200) * 2
                   ELSE IF has("relax") THEN 200 + mod(h, 100) * 2
                   ELSE 300
        dominance == IF calm THEN 300 + mod(h, 100) * 2
                     ELSE IF boost THEN 500 + mod(h, 150) * 2
                     ELSE IF has("relax") THEN 400 + mod(h, 100) * 2
                     ELSE 400
        applications ==
            (IF has("sleep")
               THEN <<"Sleep Enhancement", "Deep Sleep", "Sleep Preparation">>
               ELSE <<>>)
            \o (IF has("relax")
                  THEN <<"Relaxation & Stress Relief", "Gentle Relaxation">>
                  ELSE <<>>)
            \o (IF has("meditation") THEN <<"Meditation", "Mindfulness">> ELSE <<>>)
            \o (IF has("energize") THEN <<"Energy", "Mood Enhancement">> ELSE <<>>)
            \o (IF has("focus") THEN <<"Focus", "Concentration">> ELSE <<>>)
            \o (IF has("baroque") \/ has("classical")
                  THEN <<"Cultural Connection">> ELSE <<>>)
    IN [filename |-> fname,
        title |-> title,
        genres |-> IF detected = {} THEN {"instrumental"} ELSE detected,
        therapeutic_category |->
            IF has("sleep") THEN "sleep_enhancement"
            ELSE IF has("relax") THEN "relaxation"
            ELSE IF has("meditation") THEN "meditation"
            ELSE IF boost THEN "mood_boost"
            ELSE "therapeutic_music",
        vad_analysis |-> [valence |-> valence,
                          arousal |-> arousal,
                          dominance |-> dominance,
                          confidence_score |-> 950],
        therapeutic_applications |->
            IF applications = <<>> THEN <<"General Wellness">> ELSE applications,
        camelot_wheel |-> [estimated_key |-> estimated_key(h),
                           bpm_estimate |-> 60 + (h % 100),
                           harmonic_compatibility |->
                               harmonic_compatibility(estimated_key(h))]]

(***************************************************************************)
(* The filename-heuristic estimators run on one filename, by up to two     *)
(* processes, and again on the name with "sleep" replaced by "energize".   *)
(***************************************************************************)
Vocabulary ==
    {<<"1", "2", "0">>, <<"1", "3", "0">>, <<" ">>,
     <<"b", "p", "m">>, <<"B", "P", "M">>,
     <<"sleep">>, <<"energize">>, <<"meditation">>, <<"reverie">>}

\* values of hash(title)
HashValues == {-1, 0, 50}

InitName ==
    /\ NameIdle
    /\ BatchIdle
    /\ CamelotIdle
    /\ MetaIdle
    /\ SignalIdle
    /\ RestIdle

AppendWord ==
    /\ words < MaxWords
    /\ estimator = "none"
    /\ \E w \in Vocabulary : filename' = filename \o w
    /\ words' = words + 1
    /\ UNCHANGED <<estimator, records, sleep_record, clock>>
    /\ UNCHANGED <<batchVars, camelotVars, metaVars, signalVars, restVars>>

\* process p is the next to analyse the file with estimator e
MayAnalyze(p, e) ==
    /\ filename # <<>>
    /\ estimator \in {"none", e}
    /\ records[p] = None
    /\ p = 1 \/ (records[1] # None /\ sleep_record = None)

Analyzed(p, e, record) ==
    /\ estimator' = e
    /\ records' = [records EXCEPT ![p] = record]
    /\ clock' = clock + 1
    /\ UNCHANGED <<filename, words, sleep_record>>
    /\ UNCHANGED <<batchVars, camelotVars, metaVars, signalVars, restVars>>

\* simple_audio_metadata.py, analyze_winter_files: one file
AnalyzeWinterFile ==
    \E p \in Procs :
        /\ MayAnalyze(p, "simple_audio_metadata")
        /\ LET md == analyze_filename(filename, clock)
           IN Analyzed(p, "simple_audio_metadata",
                       [filename |-> filename,
                        metadata |-> md,
                        vad_metrics |-> estimate_vad_metrics(md)])

\* comprehensive_audio_analyzer.py, analyze_all_new_files: one file
AnalyzeNewFile ==
    \E p \in Procs :
        /\ MayAnalyze(p, "comprehensive_audio_analyzer")
        /\ LET md == analyze_filename_metadata(filename, clock)
           IN Analyzed(p, "comprehensive_audio_analyzer",
                       [filename |-> filename,
                        metadata |-> md,
                        vad_metrics |-> calculate_precise_vad_metrics(md),
                        analysis_timestamp |-> clock])

\* analyze_new_uploads.py, analyze_new_files: one file matching the glob
\* *1754912709*.mp3
AnalyzeNewUpload ==
    \E p \in Procs, h \in HashValues :
        /\ MayAnalyze(p, "analyze_new_uploads")
        /\ Analyzed(p, "analyze_new_uploads",
                    analysis_entry(filename \o TimestampSuffix, h))

\* audio_analyzer.py: the metadata calculate_vad_metrics parses from the name
ParseFilenameMetadata ==
    \E p \in Procs :
        /\ MayAnalyze(p, "audio_analyzer")
        /\ Analyzed(p, "audio_analyzer",
                    [filename |-> filename,
                     metadata |-> _parse_filename_metadata(filename)])

\* the file is renamed filename.replace("sleep", "energize") and the
\* analysis of the old name is kept for comparison
ReplaceSleep ==
    /\ "sleep" \in Range(filename)
    /\ estimator \notin {"none", "audio_analyzer"}
    /\ records[1] # None
    /\ records[2] = None
    /\ sleep_record = None
    /\ sleep_record' = records[1]
    /\ filename' = replace(filename, "sleep", "energize")
    /\ records' = [p \in Procs |-> None]
    /\ UNCHANGED <<estimator, words, clock>>
    /\ UNCHANGED <<batchVars, camelotVars, metaVars, signalVars, restVars>>

NextName ==
    \/ AppendWord
    \/ AnalyzeWinterFile
    \/ AnalyzeNewFile
    \/ AnalyzeNewUpload
    \/ ParseFilenameMetadata
    \/ ReplaceSleep

SpecName == InitName /\ [][NextName]_vars

\* the arousal estimate in an analysis record
Arousal(record) ==
    IF estimator = "analyze_new_uploads"
      THEN record.vad_analysis.arousal
      ELSE record.vad_metrics.energy_arousal

\* C1: the arousal estimated for a filename containing "sleep" is strictly
\* below the arousal the same estimator gives the filename with "sleep"
\* replaced by "energize", for every estimator, filename and title hash.
C1_SleepArousalBelowEnergize ==
    (sleep_record # None /\ records[1] # None) =>
        Arousal(sleep_record) < Arousal(records[1])

\* the first run of digits followed by optional whitespace and "bpm" in
\* the lower-cased form of s, written without the scripts' regex
IsBpmWord(s, n) ==
    /\ n + 2 <= Len(s)
    /\ s[n] \in {"b", "B"}
    /\ s[n + 1] \in {"p", "P"}
    /\ s[n + 2] \in {"m", "M"}

DigitRunStart(s, i) == IsDigit(s[i]) /\ (i = 1 \/ ~IsDigit(s[i - 1]))
DigitRunEnd(s, i) ==
    Greatest({j \in i..Len(s) : \A x \in i..j : IsDigit(s[x])})

FollowedByBpm(s, j) ==
    \E n \in (j + 1)..Len(s) :
        /\ \A x \in (j + 1)..(n - 1) : s[x] = " "
        /\ IsBpmWord(s, n)

BpmRuns(s) ==
    {i \in 1..Len(s) : DigitRunStart(s, i) /\ FollowedByBpm(s, DigitRunEnd(s, i))}

FirstBpmRun(s) ==
    LET i == Least(BpmRuns(s)) IN SubSeq(s, i, DigitRunEnd(s, i))

\* C6: when the filename holds a run of digits followed by optional
\* whitespace and "bpm" (in any case), the bpm field of the metadata in the
\* finished analysis record is the integer value of the first such run,
\* whatever keywords the filename also holds.
C6_BpmFieldIsFirstBpmRun ==
    \A p \in Procs :
        (records[p] # None /\ estimator # "analyze_new_uploads"
            /\ BpmRuns(filename) # {}) =>
                records[p].metadata.bpm = SomeInt(DigitsValue(FirstBpmRun(filename)))

\* "sleep120bpm" analysed by simple_audio_metadata: the bpm field is 120
\* and the sleep heuristic has set the purpose
C6_Witness ==
    /\ filename = <<"sleep", "1", "2", "0", "b", "p", "m">>
    /\ estimator = "simple_audio_metadata"
    /\ records[1] # None
    /\ records[1].metadata.bpm = SomeInt(120)
    /\ "sleep" \in records[1].metadata.therapeutic_purposes

\* C8: two processes that analyse the same filename with the same
\* estimator produce the same analysis record (metadata record, VAD triple,
\* Camelot key and BPM estimate).
C8_SameFilenameSameRecord ==
    (records[1] # None /\ records[2] # None) => records[1] = records[2]

(***************************************************************************)
(* The signal-feature estimators.  A waveform is represented by the        *)
(* statistics librosa extracts from it; scores and energies are in         *)
(* thousandths, tempo in BPM, frequencies in Hz.  The sample values are    *)
(* chosen so that every quotient below is exact.                           *)
(***************************************************************************)
\* np.clip(x, 0.0, 1.0)
clip(x) == Max(0, Min(1000, x))

RECURSIVE Sum(_)
Sum(s) == IF s = <<>> THEN 0 ELSE Head(s) + Sum(Tail(s))

\* np.max over a non-empty list
MaxOf(s) == Greatest(Range(s))

\* audio_analyzer.py
_get_therapeutic_valence_modifier(md) ==
    clip(500 + If("energy" \in md.therapeutic_purposes, 200)
             - If("sleep" \in md.therapeutic_purposes, 100)
             + If("focus" \in md.therapeutic_purposes, 100)
             + If("classical" \in md.genres, 100)
             - If(md.is_winter_themed, 50)
             - If(md.is_nocturne, 100))

\* audio_analyzer.py; raised stands for the ZeroDivisionError of
\* harmonic_energy / (harmonic_energy + percussive_energy)
calculate_vad_metrics(f, fname) ==
    LET md == _parse_filename_metadata(fname)
        tempo_norm == Min((f.tempo * 1000) \div 140, 1000)
        spectral_energy == Min((f.spectral_centroid_mean * 1000) \div 4000, 1000)
        rms_norm == Min(f.rms_energy_mean * 10, 1000)
        energy_arousal == (tempo_norm * 4 + spectral_energy * 3 + rms_norm * 3) \div 10
        c == f.chroma_features
        major_chroma_strength ==
            (c[1] + c[3] + c[5] + c[6] + c[8] + c[10] + c[12]) \div 7
        minor_chroma_strength == (c[2] + c[4] + c[7] + c[9] + c[11]) \div 5
        total == f.harmonic_energy + f.percussive_energy
        harmonic_positivity == (f.harmonic_energy * 1000) \div total
        \* the 1e-8 of the denominator only matters when the sum is 0
        mode_positivity ==
            IF major_chroma_strength + minor_chroma_strength = 0 THEN 0
            ELSE (major_chroma_strength * 1000)
                    \div (major_chroma_strength + minor_chroma_strength)
        therapeutic_valence_boost == _get_therapeutic_valence_modifier(md)
        valence == (harmonic_positivity * 4 + mode_positivity * 4
                      + therapeutic_valence_boost * 2) \div 10
        dynamics_strength == Min(f.dynamic_range * 20, 1000)
        percussive_strength == (f.percussive_energy * 1000) \div total
        spectral_complexity == Min((f.spectral_bandwidth_mean * 1000) \div 2000, 1000)
        dominance == (dynamics_strength * 4 + percussive_strength * 3
                        + spectral_complexity * 3) \div 10
    IN IF total = 0
         THEN [raised |-> "ZeroDivisionError"]
         ELSE [valence |-> clip(valence),
               energy_arousal |-> energy_arousal,
               dominance |-> clip(dominance),
               therapeutic_context |-> md]

\* run_complete_vad_analysis.py; the arguments are the statistics the
\* functions take of their array arguments
calculate_valence(centroid_mean, chroma_means, mfcc_brightness) ==
    LET centroid_norm == (centroid_mean * 1000) \div 8000
        chroma_brightness == MaxOf(chroma_means)
    IN clip((centroid_norm * 4 + chroma_brightness * 4 + mfcc_brightness * 2) \div 10)

calculate_arousal_seeded(tempo, rolloff_mean, zcr_mean) ==
    LET tempo_norm == Min(((tempo + clock) * 1000) \div 180, 1000)
        rolloff_energy == (rolloff_mean * 1000) \div 11000
        zcr_activity == zcr_mean * 10
    IN clip((tempo_norm * 5 + rolloff_energy * 3 + zcr_activity * 2) \div 10)
calculate_arousal(tempo, rolloff_mean, zcr_mean) ==
    LET tempo_norm == Min((tempo * 1000) \div 180, 1000)
        rolloff_energy == (rolloff_mean * 1000) \div 11000
        zcr_activity == zcr_mean * 10
    IN clip((tempo_norm * 5 + rolloff_energy * 3 + zcr_activity * 2) \div 10)

\* 0.0 / 0.0 of numpy floats
NaN == 0 - 999999

calculate_dominance(centroid_mean, centroid_std, total_beats, timbral_complexity) ==
    IF centroid_mean = 0 THEN NaN
    ELSE LET centroid_stability == 1000 - (centroid_std * 1000) \div centroid_mean
             rhythmic_strength == total_beats * 10
         IN clip((centroid_stability * 4 + rhythmic_strength * 4
                    + timbral_complexity * 2) \div 10)

\* run_complete_vad_analysis.py, the record analyze_audio_vad returns
analyze_audio_vad(f, fname, now) ==
    [filename |-> fname,
     vad_metrics |->
        [valence |-> calculate_valence(f.spectral_centroid_mean,
                                       f.chroma_features, f.mfcc_brightness),
         energy_arousal |-> calculate_arousal(f.tempo, f.spectral_rolloff_mean,
                                              f.zero_crossing_rate_mean),
         dominance |-> calculate_dominance(f.spectral_centroid_mean,
                                           f.spectral_centroid_std,
                                           f.total_beats, f.timbral_complexity),
         confidence_score |-> 850],
     librosa_features |-> [tempo |-> f.tempo,
                           spectral_centroid_mean |-> f.spectral_centroid_mean],
     analysis_timestamp |-> now]

\* audio_analyzer.py, the analysis_result of analyze_all_files
analysis_result(f, fname) ==
    LET vad == calculate_vad_metrics(f, fname)
    IN IF "raised" \in DOMAIN vad THEN vad
       ELSE [filename |-> fname,
             vad_metrics |-> vad,
             spectral_analysis |->
                [tempo_bpm |-> f.tempo,
                 spectral_centroid |-> [mean |-> f.spectral_centroid_mean]]]

ChromaSamples ==
    {[i \in 1..12 |-> 0],
     [i \in 1..12 |-> 1000],
     [i \in 1..12 |-> IF i \in {1, 3, 5, 6, 8, 10, 12} THEN 1000 ELSE 0]}

\* <<harmonic_energy, percussive_energy>>
EnergySamples == {<<0, 0>>, <<1, 0>>, <<1, 3>>, <<3, 1>>, <<-1, 3>>}

\* the statistics only run_complete_vad_analysis.py takes
LibrosaSamples ==
    {[mfcc_brightness |-> 0, spectral_rolloff_mean |-> 0,
      zero_crossing_rate_mean |-> 0, std_percent |-> 0, total_beats |-> 0,
      timbral_complexity |-> 0],
     [mfcc_brightness |-> 500, spectral_rolloff_mean |-> 5500,
      zero_crossing_rate_mean |-> 50, std_percent |-> 50, total_beats |-> 50,
      timbral_complexity |-> 1000],
     [mfcc_brightness |-> 0 - 200000, spectral_rolloff_mean |-> 22000,
      zero_crossing_rate_mean |-> 500, std_percent |-> 200, total_beats |-> 130,
      timbral_complexity |-> 50000]}

Waveforms ==
    {[tempo |-> t,
      spectral_centroid_mean |-> sc,
      spectral_centroid_std |-> (sc * l.std_percent) \div 100,
      rms_energy_mean |-> rms,
      dynamic_range |-> dr,
      spectral_bandwidth_mean |-> bw,
      harmonic_energy |-> e[1],
      percussive_energy |-> e[2],
      chroma_features |-> ch,
      mfcc_brightness |-> l.mfcc_brightness,
      spectral_rolloff_mean |-> l.spectral_rolloff_mean,
      zero_crossing_rate_mean |-> l.zero_crossing_rate_mean,
      total_beats |-> l.total_beats,
      timbral_complexity |-> l.timbral_complexity] :
        t \in {0 - 126, 63, 126, 252}, sc \in {0, 2000, 8000}, rms \in {0, 200},
        dr \in {0, 100}, bw \in {1000, 4000}, e \in EnergySamples,
        ch \in ChromaSamples, l \in LibrosaSamples}

SignalNames == {<<"sleep">>, <<"energize">>, <<"winter">>}

InitSignal ==
    /\ features \in Waveforms
    /\ filename \in SignalNames
    /\ words = 1
    /\ estimator = "none"
    /\ records = [p \in Procs |-> None]
    /\ sleep_record = None
    /\ clock = 0
    /\ BatchIdle
    /\ CamelotIdle
    /\ MetaIdle
    /\ RestIdle

\* audio_analyzer.py, analyze_all_files: one file whose features were extracted
AnalyzeFeatures ==
    \E p \in Procs :
        /\ MayAnalyze(p, "audio_analyzer")
        /\ Analyzed(p, "audio_analyzer", analysis_result(features, filename))

\* run_complete_vad_analysis.py, analyze_audio_vad: one file
AnalyzeAudioVad ==
    \E p \in Procs :
        /\ MayAnalyze(p, "run_complete_vad_analysis")
        /\ Analyzed(p, "run_complete_vad_analysis",
                    analyze_audio_vad(features, filename, clock))

NextSignal ==
    \/ AnalyzeFeatures
    \/ AnalyzeAudioVad

SpecSignal == InitSignal /\ [][NextSignal]_vars

\* C3: each of valence, energy_arousal and dominance returned by
\* TherapeuticAudioAnalyzer.calculate_vad_metrics lies in [0, 1], for every
\* feature record, negative and extreme values included.
C3_SignalVadClipped ==
    \A p \in Procs :
        (estimator = "audio_analyzer" /\ records[p] # None
            /\ "vad_metrics" \in DOMAIN records[p]) =>
                /\ records[p].vad_metrics.valence \in UnitInterval
                /\ records[p].vad_metrics.energy_arousal \in UnitInterval
                /\ records[p].vad_metrics.dominance \in UnitInterval

\* tempo, spectral centroid and VAD triple of an analysis record
SignalSummary(record) ==
    IF "raised" \in DOMAIN record THEN record
    ELSE IF estimator = "audio_analyzer"
      THEN [tempo |-> record.spectral_analysis.tempo_bpm,
            centroid |-> record.spectral_analysis.spectral_centroid.mean,
            valence |-> record.vad_metrics.valence,
            energy_arousal |-> record.vad_metrics.energy_arousal,
            dominance |-> record.vad_metrics.dominance]
      ELSE [tempo |-> record.librosa_features.tempo,
            centroid |-> record.librosa_features.spectral_centroid_mean,
            valence |-> record.vad_metrics.valence,
            energy_arousal |-> record.vad_metrics.energy_arousal,
            dominance |-> record.vad_metrics.dominance]

InitialReports ==
    {NoFile,
     JsonFile("comprehensive_analyses", <<Entry(1, "run_complete_vad_analysis")>>),
     JsonFile("comprehensive_analyses",
              <<Entry(2, "robust_vad_camelot_analyzer"),
                Entry(1, "run_complete_vad_analysis")>>)}

KindMaps ==
    {k \in [AudioFiles -> Kinds] :
        Cardinality({f \in AudioFiles : k[f] # "ok"}) <= MaxBad}

InitBatch ==
    /\ \E r \in InitialReports :
          disk = [n \in FileNames |-> IF n = ReportFile THEN r ELSE NoFile]
    /\ kind \in KindMaps
    /\ script = "none"
    /\ pc = "idle"
    /\ ret = "none"
    /\ audio_files = <<>>
    /\ idx = 0
    /\ analysis_results = <<>>
    /\ processed_files = {}
    /\ new_analyses = 0
    /\ attempts = [f \in AudioFiles |-> 0]
    /\ failed = {}
    /\ durable = disk[ReportFile].items
    /\ lastExit = "none"
    /\ runs = 0
    /\ recorded = Filenames(disk[ReportFile].items)
    /\ CamelotIdle
    /\ MetaIdle
    /\ NameIdle
    /\ SignalIdle
    /\ RestIdle

(***************************************************************************)
(* A process starts: __init__ and the start of process_all_files.          *)
(***************************************************************************)
StartLibrosa(s) ==
    /\ UNCHANGED <<pureVars, recorded>>
    /\ pc = "idle"
    /\ runs < MaxRuns
    /\ s \in LibrosaScripts
    /\ LET loaded == load_existing_analysis(disk[ReportFile])
           globbed == SeqOfSet(AudioFiles)
       IN IF loaded.raised
            THEN /\ pc' = "idle"
                 /\ lastExit' = "load_error"
                 /\ UNCHANGED <<audio_files, idx, analysis_results,
                                processed_files, durable>>
            ELSE /\ pc' = "loop"
                 /\ lastExit' = "running"
                 /\ analysis_results' = loaded.items
                 /\ processed_files' = Filenames(loaded.items)
                 /\ durable' = loaded.items
                 /\ audio_files' =
                      IF s # "run_complete_vad_analysis"
                        THEN new_files(globbed, Filenames(loaded.items))
                        ELSE globbed
                 /\ idx' = 1
    /\ script' = s
    /\ ret' = "none"
    /\ new_analyses' = 0
    /\ attempts' = [f \in AudioFiles |-> 0]
    /\ failed' = {}
    /\ runs' = runs + 1
    /\ UNCHANGED <<disk, kind>>

StartAudioAnalyzer ==
    /\ UNCHANGED <<pureVars, recorded>>
    /\ pc = "idle"
    /\ runs < MaxRuns
    /\ script' = "audio_analyzer"
    /\ pc' = "loop"
    /\ lastExit' = "running"
    /\ analysis_results' = <<>>
    /\ processed_files' = {}
    /\ audio_files' = SeqOfSet(AudioFiles)
    /\ idx' = 1
    /\ ret' = "none"
    /\ new_analyses' = 0
    /\ attempts' = [f \in AudioFiles |-> 0]
    /\ failed' = {}
    /\ runs' = runs + 1
    /\ UNCHANGED <<disk, kind, durable>>

\* comprehensive_audio_analyzer.py: main() up to the loop of
\* analyze_all_new_files; the report on disk is not read
StartComprehensive ==
    /\ UNCHANGED <<pureVars, recorded>>
    /\ pc = "idle"
    /\ runs < MaxRuns
    /\ script' = "comprehensive_audio_analyzer"
    /\ pc' = "loop"
    /\ lastExit' = "running"
    /\ analysis_results' = <<>>
    /\ processed_files' = {}
    /\ audio_files' = SeqOfSet(find_all_new_files)
    /\ idx' = 1
    /\ ret' = "none"
    /\ new_analyses' = 0
    /\ attempts' = [f \in AudioFiles |-> 0]
    /\ failed' = {}
    /\ runs' = runs + 1
    /\ UNCHANGED <<disk, kind, durable>>

(***************************************************************************)
(* One iteration of the loop of process_all_files.                         *)
(***************************************************************************)
ProcessFile ==
    /\ UNCHANGED <<pureVars, recorded>>
    /\ pc = "loop"
    /\ script \in LibrosaScripts
    /\ idx <= Len(audio_files)
    /\ LET f == audio_files[idx]
       IN IF script = "run_complete_vad_analysis"
               /\ AlreadyProcessed(f, processed_files)
            THEN \* "Skipping ... (already processed)"
                 /\ idx' = idx + 1
                 /\ UNCHANGED <<disk, pc, ret, analysis_results, new_analyses,
                                attempts, failed>>
            ELSE /\ attempts' = [attempts EXCEPT ![f] = @ + 1]
                 /\ idx' = idx + 1
                 /\ IF AnalyzeOutcome(script, kind[f]) = "record"
                      THEN /\ analysis_results' =
                                Append(analysis_results, Entry(f, script))
                           /\ new_analyses' = new_analyses + 1
                           /\ failed' = failed
                           /\ IF ShouldSave(script, new_analyses + 1)
                                THEN \* save_results(): open(..., "w")
                                     /\ disk' = [disk EXCEPT ![ReportFile] = Truncated]
                                     /\ pc' = "dump"
                                     /\ ret' = "loop"
                                ELSE UNCHANGED <<disk, pc, ret>>
                      ELSE /\ failed' = failed \cup {f}
                           /\ UNCHANGED <<disk, pc, ret, analysis_results,
                                          new_analyses>>
    /\ UNCHANGED <<kind, script, audio_files, processed_files, durable,
                   lastExit, runs>>

\* the loop is over: the final save_results()
FinishLoop ==
    /\ UNCHANGED <<pureVars, recorded>>
    /\ pc = "loop"
    /\ script \in LibrosaScripts
    /\ idx > Len(audio_files)
    /\ disk' = [disk EXCEPT ![ReportFile] = Truncated]
    /\ pc' = "dump"
    /\ ret' = "done"
    /\ UNCHANGED <<kind, script, audio_files, idx, analysis_results,
                   processed_files, new_analyses, attempts, failed, durable,
                   lastExit, runs>>

\* json.dump(report, f, indent=2) completes and the file is closed
save_results ==
    /\ UNCHANGED pureVars
    /\ pc = "dump"
    /\ disk' = [disk EXCEPT ![OutputFile(script)] =
                    JsonFile(OutputKey(script), analysis_results)]
    /\ durable' = IF OutputFile(script) = ReportFile
                     THEN analysis_results ELSE durable
    /\ recorded' = IF OutputFile(script) = ReportFile
                      THEN recorded \cup Filenames(analysis_results)
                      ELSE recorded
    /\ pc' = ret
    /\ ret' = "none"
    /\ UNCHANGED <<kind, script, audio_files, idx, analysis_results,
                   processed_files, new_analyses, attempts, failed,
                   lastExit, runs>>

(***************************************************************************)
(* audio_analyzer.py: analyze_all_files and main;                          *)
(* comprehensive_audio_analyzer.py: analyze_all_new_files and main.        *)
(***************************************************************************)
AnalyzeAllFilesStep ==
    /\ UNCHANGED <<pureVars, recorded>>
    /\ pc = "loop"
    /\ script \in FilenameScripts
    /\ idx <= Len(audio_files)
    /\ LET f == audio_files[idx]
           outcome == AnalyzeOutcome(script, kind[f])
       IN /\ attempts' = [attempts EXCEPT ![f] = @ + 1]
          /\ IF outcome = "record"
               THEN /\ analysis_results' =
                         Append(analysis_results, Entry(f, script))
                    /\ idx' = idx + 1
                    /\ UNCHANGED <<pc, failed, lastExit>>
             ELSE IF outcome = "none"
               THEN \* if not features: continue
                    /\ failed' = failed \cup {f}
                    /\ idx' = idx + 1
                    /\ UNCHANGED <<pc, analysis_results, lastExit>>
             ELSE \* calculate_vad_metrics raises outside any try
                    /\ failed' = failed \cup {f}
                    /\ pc' = "idle"
                    /\ lastExit' = "aborted"
                    /\ UNCHANGED <<idx, analysis_results>>
    /\ UNCHANGED <<disk, kind, script, ret, audio_files, processed_files,
                   new_analyses, durable, runs>>

AnalyzeAllFilesEnd ==
    /\ UNCHANGED <<pureVars, recorded>>
    /\ pc = "loop"
    /\ script \in FilenameScripts
    /\ idx > Len(audio_files)
    /\ IF analysis_results # <<>>
         THEN \* save_analysis_report(results) / save_comprehensive_report(
              \* results): open(output_file, 'w')
              /\ disk' = [disk EXCEPT ![OutputFile(script)] = Truncated]
              /\ pc' = "dump"
              /\ ret' = "done"
         ELSE /\ pc' = "done"
              /\ UNCHANGED <<disk, ret>>
    /\ UNCHANGED <<kind, script, audio_files, idx, analysis_results,
                   processed_files, new_analyses, attempts, failed, durable,
                   lastExit, runs>>

(***************************************************************************)
(* The process ends, normally or because it is interrupted.                *)
(***************************************************************************)
\* the top-level keys of the record the per-file analysis of a script
\* returns
EntryKeys(by) ==
    IF by = "complete_vad_camelot_processor"
      THEN {"filename", "vad_metrics", "camelot_analysis",
            "advanced_librosa_features", "therapeutic_applications",
            "dj_mixing_compatibility", "analysis_timestamp"}
    ELSE IF by = "robust_vad_camelot_analyzer"
      THEN {"filename", "vad_metrics", "camelot_analysis", "librosa_features",
            "therapeutic_applications", "dj_mixing", "analysis_timestamp"}
    ELSE IF by = "run_complete_vad_analysis"
      THEN {"filename", "vad_metrics", "camelot_analysis", "librosa_features",
            "therapeutic_applications", "analysis_timestamp"}
    ELSE {"filename"}

\* the keys of the record under "camelot_analysis"
CamelotAnalysisKeys(by) ==
    IF by = "complete_vad_camelot_processor"
      THEN {"primary_key", "camelot_key", "mode", "dj_transition_difficulty"}
    ELSE IF by \in LibrosaScripts
      THEN {"key", "compatible_keys", "mixing_recommendations"}
    ELSE {}

\* AdvancedMusicAnalyzer.generate_analysis_summary: whether a subscript
\* raises KeyError
generate_analysis_summary(items) ==
    \E i \in 1..Len(items) :
        \/ "vad_metrics" \notin EntryKeys(items[i].by)
        \/ "advanced_librosa_features" \notin EntryKeys(items[i].by)
        \/ "camelot_analysis" \notin EntryKeys(items[i].by)
        \/ "camelot_key" \notin CamelotAnalysisKeys(items[i].by)
        \/ "dj_transition_difficulty" \notin CamelotAnalysisKeys(items[i].by)

\* RobustMusicAnalyzer.generate_summary: whether a subscript raises KeyError
generate_summary(items) ==
    \E i \in 1..Len(items) :
        \/ "vad_metrics" \notin EntryKeys(items[i].by)
        \/ "librosa_features" \notin EntryKeys(items[i].by)
        \/ "camelot_analysis" \notin EntryKeys(items[i].by)
        \/ "key" \notin CamelotAnalysisKeys(items[i].by)
        \/ "therapeutic_applications" \notin EntryKeys(items[i].by)

\* what follows the final save in process_all_files raises
SummaryRaises(s, items) ==
    IF s = "complete_vad_camelot_processor" THEN generate_analysis_summary(items)
    ELSE IF s = "robust_vad_camelot_analyzer" THEN generate_summary(items)
    ELSE FALSE

\* the summary is generated and the process ends; an exception of the
\* summary is caught nowhere
Exit ==
    /\ UNCHANGED <<pureVars, recorded>>
    /\ pc = "done"
    /\ pc' = "idle"
    /\ lastExit' = IF SummaryRaises(script, analysis_results)
                     THEN "crashed" ELSE "complete"
    /\ UNCHANGED <<disk, kind, script, ret, audio_files, idx, analysis_results,
                   processed_files, new_analyses, attempts, failed, durable,
                   runs>>

Interrupt ==
    /\ UNCHANGED <<pureVars, recorded>>
    /\ pc \in {"loop", "dump"}
    /\ pc' = "idle"
    /\ lastExit' = "interrupted"
    /\ UNCHANGED <<disk, kind, script, ret, audio_files, idx, analysis_results,
                   processed_files, new_analyses, attempts, failed, durable,
                   runs>>

StartRun == \E s \in LibrosaScripts : StartLibrosa(s)

Init == InitBatch

Next ==
    \/ StartRun
    \/ StartAudioAnalyzer
    \/ StartComprehensive
    \/ ProcessFile
    \/ FinishLoop
    \/ save_results
    \/ AnalyzeAllFilesStep
    \/ AnalyzeAllFilesEnd
    \/ Exit
    \/ Interrupt

Spec == Init /\ [][Next]_vars

(***************************************************************************)
(* Properties of the batch runners.                                        *)
(***************************************************************************)
Report == disk[ReportFile]

NoDuplicates(items) ==
    \A i, j \in 1..Len(items) : items[i].filename = items[j].filename => i = j

\* C24: no run of a librosa script that loaded the entries another one
\* wrote ends with an uncaught exception: process_all_files, its summary
\* included, completes.
C24_SharedReportIsReadableByAll ==
    (script \in LibrosaScripts /\ pc = "idle") => lastExit # "crashed"

\* C5: starting from a report with pairwise distinct filenames (or from no
\* file), the report never holds two entries for one filename, the
\* per-file analysis is never called for a filename loaded from the
\* report, and so a later run adds no entry for a file an earlier run
\* recorded.
C5_RerunAddsNoDuplicate ==
    /\ Report.state = "json" => NoDuplicates(Report.items)
    /\ NoDuplicates(analysis_results)
    /\ script \in LibrosaScripts =>
          \A f \in processed_files : attempts[f] = 0

\* a second complete run that loaded what the first one recorded and
\* skipped all of it
C5_Witness ==
    /\ runs >= 2
    /\ pc = "done"
    /\ script \in LibrosaScripts
    /\ Cardinality(processed_files) >= NumFiles - MaxBad
    /\ new_analyses = 0
    /\ Report.state = "json"
    /\ Len(Report.items) = Cardinality(processed_files)

\* C9: in every batch loop an exception while analysing one file makes the
\* per-file analysis return None: the run is never aborted, the failed
\* file is left out of the results and is not analysed twice in the run,
\* and a finished loop has visited every file.
C9_FailureSkipsFileAndContinues ==
    /\ lastExit # "aborted"
    /\ \A f \in AudioFiles : attempts[f] <= 1
    /\ failed \cap Filenames(analysis_results) = {}
    /\ pc = "done" =>
          \A f \in Range(audio_files) :
              f \in processed_files \/ attempts[f] = 1

\* C10: after an interrupted run every entry that was in the report after
\* the last completed flush (or at the start of the run) can be loaded
\* from the report by load_existing_analysis.
C10_InterruptKeepsFlushedEntries ==
    lastExit = "interrupted" =>
        LET loaded == load_existing_analysis(Report)
        IN /\ ~loaded.raised
           /\ Range(durable) \subseteq Range(loaded.items)

\* the entries the report on disk holds
OnDisk == Range(Report.items)

C12_RecordedFilenamesStayRecorded ==
    (pc = "idle" /\ lastExit = "complete") =>
        recorded \subseteq Filenames(Report.items)

\* C13: when process_all_files of complete_vad_camelot_processor is over,
\* every new audio file that decodes and whose features can be extracted
\* has an entry in the report.
C13_AdvancedRecordsEveryDecodableNewFile ==
    (script = "complete_vad_camelot_processor" /\ pc = "done") =>
        \A f \in AudioFiles :
            (kind[f] = "ok" /\ f \notin processed_files) =>
                f \in Filenames(Report.items)

(***************************************************************************)
(* Database and music-library maintenance: dedupe_tracks.py,               *)
(* audio_analysis.py (update_database_with_analysis) and                   *)
(* spectral_analysis.py (main).  A table is the set of its rows; a         *)
(* transaction works on session and commit makes session the table.        *)
(***************************************************************************)
MaxTracks == 3
MaxToolRuns == 2

TrackIds == 1..MaxTracks
Titles == {<<"M", "a", "p">>, <<" ", "m", "a", "p">>, <<"P", "o", "p">>}
CreationTimes == {1, 2}

Row(i, title, created) ==
    [id |-> i, title |-> title, artist |-> <<"B", "o", "b">>, duration |-> 180,
     created_at |-> created, valence |-> NoInt]

\* ids are handed out in the order the rows are inserted: a row with a
\* larger id was not created earlier
InitialTables ==
    {{Row(i, t[i], c[i]) : i \in TrackIds} :
        t \in [TrackIds -> Titles],
        c \in {d \in [TrackIds -> CreationTimes] :
                  \A i, j \in TrackIds : i < j => d[i] <= d[j]}}

\* str.strip()
RECURSIVE lstrip(_)
lstrip(s) ==
    IF s # <<>> /\ Head(s) \in Whitespace THEN lstrip(Tail(s)) ELSE s

RECURSIVE rstrip(_)
rstrip(s) ==
    IF s # <<>> /\ s[Len(s)] \in Whitespace
      THEN rstrip(SubSeq(s, 1, Len(s) - 1))
      ELSE s

strip(s) == rstrip(lstrip(s))

\* the md5 digest of f"{title}|{artist}|{duration}" is represented by the
\* string that is hashed
create_fingerprint(track) ==
    lower(strip(track.title)) \o <<"|">> \o lower(strip(track.artist))
        \o <<"|">> \o str(track.duration)

RECURSIVE Perms(_)
Perms(S) ==
    IF S = {} THEN {<<>>}
    ELSE UNION {{<<x>> \o p : p \in Perms(S \ {x})} : x \in S}

\* SELECT ... FROM tracks ORDER BY created_at DESC: every order of the rows
\* the database may return
fetch_all_tracks(table) ==
    {p \in Perms(table) :
        \A i \in 1..(Len(p) - 1) : p[i].created_at >= p[i + 1].created_at}

\* key=lambda x: x.get('created_at', datetime.min)
sort_key_constant(x) == 0
sort_key(x) == x.created_at

RECURSIVE InsertByCreatedAt(_, _)
InsertByCreatedAt(sorted, t) ==
    IF sorted = <<>> THEN <<t>>
    ELSE IF sort_key(Head(sorted)) <= sort_key(t)
      THEN <<Head(sorted)>> \o InsertByCreatedAt(Tail(sorted), t)
      ELSE <<t>> \o sorted

\* group.sort(key=...): stable
RECURSIVE sort_by_created_at(_)
sort_by_created_at(group) ==
    IF group = <<>> THEN <<>>
    ELSE InsertByCreatedAt(sort_by_created_at(SubSeq(group, 1, Len(group) - 1)),
                           group[Len(group)])

\* fingerprint_groups[fingerprint]: the tracks with the fingerprint, in the
\* order they were fetched
fingerprint_group(fetched, fp) ==
    SelectSeq(fetched, LAMBDA t : create_fingerprint(t) = fp)

analyze_duplicates(fetched) ==
    LET fps == {create_fingerprint(fetched[i]) : i \in 1..Len(fetched)}
        dup == {fp \in fps : Len(fingerprint_group(fetched, fp)) > 1}
    IN [fp \in dup |->
          LET group == sort_by_created_at(fingerprint_group(fetched, fp))
          IN [original |-> group[1],
              duplicates |-> Tail(group),
              count |-> Len(group) - 1]]

\* duplicate_ids of remove_duplicates
duplicate_ids(dups) ==
    UNION {{dups[fp].duplicates[i].id : i \in 1..Len(dups[fp].duplicates)} :
              fp \in DOMAIN dups}

\* DELETE FROM tracks WHERE id = ANY(duplicate_ids)
DeleteRows(table, ids) == {t \in table : t.id \notin ids}

\* UPDATE tracks SET valence = ..., ... WHERE id = track_id
UpdateRow(table, track_id) ==
    {IF t.id = track_id THEN [t EXCEPT !.valence = SomeInt(500 + t.id)] ELSE t :
        t \in table}

RECURSIVE UpdateRows(_, _)
UpdateRows(table, ids) ==
    IF ids = <<>> THEN table
    ELSE UpdateRows(UpdateRow(table, Head(ids)), Tail(ids))

\* psycopg2.connect(...) leaves autocommit off: a statement changes the
\* session only, the committed table stays as it was
CommittedAfterStatementAutocommit(committed, sess) == sess
CommittedAfterStatement(committed, sess) == committed

(***************************************************************************)
(* spectral_analysis.py: find_duplicates and generate_removal_plan.        *)
(***************************************************************************)
\* features_db[f]['file_size']
file_size(f) == IF f = 2 THEN 9 ELSE IF f = 4 THEN 7 ELSE 5

\* what calculate_similarity(...)['overall'] >= threshold may be over the
\* files present
SimilarityRelations(present) ==
    SUBSET ({{f, g} : f, g \in present} \ {{f} : f \in present})

IsSimilar(rel, f, g) == {f, g} \in rel

RECURSIVE InsertBySize(_, _)
InsertBySize(sorted, f) ==
    IF sorted = <<>> THEN <<f>>
    ELSE IF file_size(Head(sorted)) >= file_size(f)
      THEN <<Head(sorted)>> \o InsertBySize(Tail(sorted), f)
      ELSE <<f>> \o sorted

\* group_data.sort(key=lambda x: x['size'], reverse=True)
RECURSIVE sort_by_size(_)
sort_by_size(group) ==
    IF group = <<>> THEN <<>>
    ELSE InsertBySize(sort_by_size(SubSeq(group, 1, Len(group) - 1)),
                      group[Len(group)])

\* processed.add(file1) only: the files appended to the group stay unmarked
add_first_only(processed, group) == processed \cup {Head(group)}

\* processed.add(file1) and, for every file2 appended, processed.add(file2)
add_processed(processed, group) == processed \cup Range(group)

\* the loop of find_duplicates over files, with the set "processed"
RECURSIVE duplicate_groups(_, _, _)
duplicate_groups(files, processed, rel) ==
    IF files = <<>> THEN <<>>
    ELSE LET file1 == Head(files)
         IN IF file1 \in processed
              THEN duplicate_groups(Tail(files), processed, rel)
              ELSE LET group == <<file1>> \o
                                SelectSeq(Tail(files),
                                          LAMBDA file2 :
                                              /\ file2 \notin processed
                                              /\ IsSimilar(rel, file1, file2))
                   IN (IF Len(group) > 1 THEN <<sort_by_size(group)>> ELSE <<>>)
                      \o duplicate_groups(Tail(files),
                                          add_processed(processed, group), rel)

find_duplicates(present, rel) == duplicate_groups(SeqOfSet(present), {}, rel)

\* the inner loop "for file_data in remove_files" on the plan so far
RECURSIVE mark_for_removal(_, _)
mark_for_removal(plan, remove_files) ==
    IF remove_files = <<>> THEN plan
    ELSE mark_for_removal(
             [plan EXCEPT !.files_to_remove = Append(@, Head(remove_files)),
                          !.space_saved = @ + file_size(Head(remove_files)),
                          !.total_duplicates = @ + 1],
             Tail(remove_files))

\* the loop "for group in duplicates_data['duplicate_groups']"
RECURSIVE plan_groups(_, _)
plan_groups(plan, groups) ==
    IF groups = <<>> THEN plan
    ELSE LET keep_file == Head(groups)[1]
             remove_files == Tail(Head(groups))
         IN plan_groups(
                mark_for_removal(
                    [plan EXCEPT !.files_to_keep = Append(@, keep_file)],
                    remove_files),
                Tail(groups))

generate_removal_plan(groups) ==
    plan_groups([total_duplicates |-> 0, files_to_remove |-> <<>>,
                 files_to_keep |-> <<>>, space_saved |-> 0], groups)

\* "if duplicates_data['duplicate_groups']:" and "if not args.dry_run:":
\* whether main goes on to the prompt
asks_to_proceed_ignoring_flag(flag, groups) == groups # <<>>
asks_to_proceed(flag, groups) == groups # <<>> /\ flag # "True"

Responses == {<<"y">>, <<"Y">>, <<"n">>, <<>>, <<"y", "e", "s">>}

(***************************************************************************)
(* The tools as processes.                                                 *)
(***************************************************************************)
DedupeOthers ==
    <<batchVars, camelotVars, metaVars, nameVars, signalVars, tagVars, keyVars,
      hashVars, quickVars, lateVars>>

\* either the table or the music library has content
InitDedupe ==
    /\ \/ tracks \in InitialTables /\ music_files = {}
       \/ tracks = {} /\ music_files = MusicFiles
    /\ session = tracks
    /\ snapshot = tracks
    /\ tool = "none"
    /\ step = "idle"
    /\ duplicates = <<>>
    /\ dry_run = "unset"
    /\ results = <<>>
    /\ executed = 0
    /\ commits = 0
    /\ tool_runs = 0
    /\ similar = {}
    /\ files_to_remove = <<>>
    /\ response = <<>>
    /\ removed = {}
    /\ TagIdle
    /\ KeyIdle
    /\ HashIdle
    /\ QuickIdle
    /\ LateIdle
    /\ BatchIdle
    /\ CamelotIdle
    /\ MetaIdle
    /\ NameIdle
    /\ SignalIdle

\* a process starts: what every tool resets
StartTool(t) ==
    /\ step = "idle"
    /\ tool_runs < MaxToolRuns
    /\ tool_runs' = tool_runs + 1
    /\ tool' = t
    /\ session' = tracks
    /\ snapshot' = tracks
    /\ executed' = 0
    /\ commits' = 0
    /\ removed' = {}
    /\ response' = <<>>
    /\ UNCHANGED <<tracks, music_files, DedupeOthers>>

\* dedupe_tracks.py main: fetch_all_tracks, analyze_duplicates,
\* display_duplicates and the menu
DedupeMain ==
    /\ StartTool("dedupe_tracks")
    /\ \E fetched \in fetch_all_tracks(tracks) :
          /\ duplicates' = analyze_duplicates(fetched)
          /\ step' = IF DOMAIN analyze_duplicates(fetched) = {}
                       THEN "done" ELSE "menu"
    /\ dry_run' = "unset"
    /\ UNCHANGED <<results, similar, files_to_remove>>

MenuChoices == {"1", "2", "3", "4"}
Confirmations == {"YES", "yes"}

\* choice = input(...); remove_duplicates up to the dry_run test
ChooseAction ==
    /\ tool = "dedupe_tracks"
    /\ step = "menu"
    /\ \E choice \in MenuChoices, confirm \in Confirmations :
          IF choice = "2"
            THEN \* remove_duplicates(duplicates, dry_run=True) returns
                 /\ dry_run' = "True"
                 /\ step' = "done"
          ELSE IF choice = "3" /\ confirm = "YES"
            THEN /\ dry_run' = "False"
                 /\ step' = "delete"
          ELSE /\ dry_run' = dry_run
               /\ step' = "done"
    /\ UNCHANGED <<tracks, session, tool, duplicates, results, executed,
                   commits, snapshot, tool_runs, music_files, similar,
                   files_to_remove, response, removed, DedupeOthers>>

\* self.cursor.execute("DELETE ...") inside the try; on an exception
\* self.conn.rollback()
ExecuteDelete ==
    /\ tool = "dedupe_tracks"
    /\ step = "delete"
    /\ \E ok \in BOOLEAN :
          IF ok
            THEN /\ session' = DeleteRows(session, duplicate_ids(duplicates))
                 /\ tracks' = CommittedAfterStatement(
                                   tracks,
                                   DeleteRows(session, duplicate_ids(duplicates)))
                 /\ executed' = executed + 1
                 /\ step' = "commit"
            ELSE /\ session' = tracks
                 /\ step' = "done"
                 /\ UNCHANGED <<tracks, executed>>
    /\ UNCHANGED <<tool, duplicates, dry_run, results, commits, snapshot,
                   tool_runs, music_files, similar, files_to_remove, response,
                   removed, DedupeOthers>>

\* audio_analysis.py main: analyze_all_tracks appends a result for every
\* track whose file exists and could be analysed (ORDER BY id);
\* update_database_with_analysis returns at once if there is none
AnalyzeAllTracks ==
    /\ StartTool("audio_analysis")
    /\ \E analysed \in SUBSET {t.id : t \in tracks} :
          /\ results' = SeqOfSet(analysed)
          /\ step' = IF analysed = {} THEN "done" ELSE "update"
    /\ dry_run' = "unset"
    /\ UNCHANGED <<duplicates, similar, files_to_remove>>

\* one cur.execute("UPDATE ...") of the loop; an exception leaves the
\* "with self.connect_db() as conn" block, which rolls back
ExecuteUpdate ==
    /\ tool = "audio_analysis"
    /\ step = "update"
    /\ executed < Len(results)
    /\ \E ok \in BOOLEAN :
          IF ok
            THEN /\ session' = UpdateRow(session, results[executed + 1])
                 /\ tracks' = CommittedAfterStatement(
                                   tracks,
                                   UpdateRow(session, results[executed + 1]))
                 /\ executed' = executed + 1
                 /\ step' = IF executed + 1 = Len(results)
                              THEN "commit" ELSE "update"
            ELSE /\ session' = tracks
                 /\ step' = "done"
                 /\ UNCHANGED <<tracks, executed>>
    /\ UNCHANGED <<tool, duplicates, dry_run, results, commits, snapshot,
                   tool_runs, music_files, similar, files_to_remove, response,
                   removed, DedupeOthers>>

\* self.conn.commit() / conn.commit(); the commit that leaving the "with"
\* block issues afterwards finds no open transaction
Commit ==
    /\ step = "commit"
    /\ tracks' = session
    /\ commits' = commits + 1
    /\ step' = "done"
    /\ UNCHANGED <<session, tool, duplicates, dry_run, results, executed,
                   snapshot, tool_runs, music_files, similar, files_to_remove,
                   response, removed, DedupeOthers>>

\* spectral_analysis.py main up to "if not args.dry_run"
SpectralMain ==
    /\ StartTool("spectral_analysis")
    /\ \E flag \in {"True", "False"}, rel \in SimilarityRelations(music_files) :
          LET groups == find_duplicates(music_files, rel)
          IN /\ dry_run' = flag
             /\ similar' = rel
             /\ files_to_remove' = generate_removal_plan(groups).files_to_remove
             /\ step' = IF asks_to_proceed(flag, groups)
                          THEN "prompt" ELSE "done"
    /\ UNCHANGED <<duplicates, results>>

\* response = input("Proceed with removing duplicates? (y/N): ")
Respond ==
    /\ tool = "spectral_analysis"
    /\ step = "prompt"
    /\ \E r \in Responses :
          /\ response' = r
          /\ step' = IF lower(r) = <<"y">> THEN "remove" ELSE "done"
    /\ UNCHANGED <<tracks, session, tool, duplicates, dry_run, results,
                   executed, commits, snapshot, tool_runs, music_files,
                   similar, files_to_remove, removed, DedupeOthers>>

\* one iteration of "for file_data in removal_plan['files_to_remove']":
\* os.remove, whose exception is caught and printed
RemoveFile ==
    /\ tool = "spectral_analysis"
    /\ step = "remove"
    /\ executed < Len(files_to_remove)
    /\ \E ok \in BOOLEAN :
          LET path == files_to_remove[executed + 1]
          IN IF ok
               THEN /\ music_files' = music_files \ {path}
                    /\ removed' = removed \cup {path}
               ELSE UNCHANGED <<music_files, removed>>
    /\ executed' = executed + 1
    /\ step' = IF executed + 1 = Len(files_to_remove) THEN "done" ELSE "remove"
    /\ UNCHANGED <<tracks, session, tool, duplicates, dry_run, results,
                   commits, snapshot, tool_runs, similar, files_to_remove,
                   response, DedupeOthers>>

\* the process ends
ToolExit ==
    /\ step = "done"
    /\ step' = "idle"
    /\ tool' = "none"
    /\ session' = tracks
    /\ snapshot' = tracks
    /\ duplicates' = <<>>
    /\ dry_run' = "unset"
    /\ results' = <<>>
    /\ executed' = 0
    /\ commits' = 0
    /\ similar' = {}
    /\ files_to_remove' = <<>>
    /\ response' = <<>>
    /\ removed' = {}
    /\ UNCHANGED <<tracks, tool_runs, music_files, DedupeOthers>>

NextDedupe ==
    \/ DedupeMain
    \/ ChooseAction
    \/ ExecuteDelete
    \/ AnalyzeAllTracks
    \/ ExecuteUpdate
    \/ Commit
    \/ SpectralMain
    \/ Respond
    \/ RemoveFile
    \/ ToolExit

SpecDedupe == InitDedupe /\ [][NextDedupe]_vars

(***************************************************************************)
(* Properties of the maintenance tools.                                    *)
(***************************************************************************)
\* the table after every statement of the bulk write of this run
BatchApplied ==
    IF tool = "dedupe_tracks"
      THEN DeleteRows(snapshot, duplicate_ids(duplicates))
      ELSE UpdateRows(snapshot, results)

BatchStatements == IF tool = "dedupe_tracks" THEN 1 ELSE Len(results)

\* C14: during and after update_database_with_analysis and
\* remove_duplicates(dry_run=False) the committed table is either the table
\* the run started with or that table with every statement of the batch
\* applied; at most one commit ends the transaction, and it is issued
\* only after all statements of the batch were executed; without it the
\* table is unchanged.
C14_BulkWriteIsAllOrNothing ==
    tool \in {"dedupe_tracks", "audio_analysis"} =>
        /\ tracks \in {snapshot, BatchApplied}
        /\ commits <= 1
        /\ commits = 1 => (tracks = BatchApplied /\ executed = BatchStatements)
        /\ commits = 0 => tracks = snapshot

\* an UPDATE failed after an earlier UPDATE of the batch had succeeded, and
\* the run is over
C14_Witness ==
    /\ tool = "audio_analysis"
    /\ step = "done"
    /\ executed >= 1
    /\ executed < Len(results)
    /\ commits = 0
    /\ session = snapshot

\* C15: with --dry-run spectral_analysis.main removes no file, and with
\* dry_run=True remove_duplicates executes no statement, commits nothing
\* and leaves the table as it was; without --dry-run files are removed only
\* after the user answered y (in either case), and only paths listed in
\* files_to_remove.
C15_DryRunDeletesNothing ==
    /\ (tool = "spectral_analysis" /\ dry_run = "True") =>
          (removed = {} /\ step \notin {"prompt", "remove"})
    /\ (tool = "dedupe_tracks" /\ dry_run = "True") =>
          (executed = 0 /\ commits = 0 /\ tracks = snapshot /\ session = snapshot)
    /\ tool = "spectral_analysis" =>
          /\ removed \subseteq Range(files_to_remove)
          /\ removed # {} => (dry_run = "False" /\ lower(response) = <<"y">>)

\* a dry run of spectral_analysis.main that found duplicates to remove is
\* over
C15_Witness ==
    /\ tool = "spectral_analysis"
    /\ dry_run = "True"
    /\ step = "done"
    /\ files_to_remove # <<>>
    /\ Range(files_to_remove) \subseteq music_files

\* the files find_duplicates processed in this run, its groups, and the plan
AnalyzedFiles == music_files \cup removed

FoundGroups == find_duplicates(AnalyzedFiles, similar)

FoundPlan == generate_removal_plan(FoundGroups)

\* C21: every processed file is in at most one duplicate group, once; every
\* group has at least two files, in non-increasing order of size; the plan
\* keeps the first file of each group and marks the others, files_to_keep
\* and files_to_remove are disjoint, and total_duplicates is the number of
\* files_to_remove, the sum over the groups of (size of the group - 1).
C21_GroupsDisjointAndPlanKeepsFirst ==
    tool = "spectral_analysis" =>
        /\ \A f \in AnalyzedFiles :
              Cardinality({<<i, j>> \in (1..Len(FoundGroups)) \X (1..4) :
                              /\ j <= Len(FoundGroups[i])
                              /\ FoundGroups[i][j] = f}) <= 1
        /\ \A i \in 1..Len(FoundGroups) :
              /\ Len(FoundGroups[i]) >= 2
              /\ \A j \in 1..(Len(FoundGroups[i]) - 1) :
                    file_size(FoundGroups[i][j]) >= file_size(FoundGroups[i][j + 1])
        /\ FoundPlan.files_to_keep =
              [i \in 1..Len(FoundGroups) |-> FoundGroups[i][1]]
        /\ Range(FoundPlan.files_to_remove) =
              UNION {Range(Tail(FoundGroups[i])) : i \in 1..Len(FoundGroups)}
        /\ Range(FoundPlan.files_to_keep) \cap Range(FoundPlan.files_to_remove) = {}
        /\ FoundPlan.total_duplicates = Len(FoundPlan.files_to_remove)
        /\ FoundPlan.total_duplicates =
              Cardinality(UNION {Range(FoundGroups[i]) : i \in 1..Len(FoundGroups)})
                 - Len(FoundGroups)
        /\ files_to_remove = FoundPlan.files_to_remove

\* two groups of two files were found, the larger file first in each
C21_Witness ==
    /\ tool = "spectral_analysis"
    /\ step = "prompt"
    /\ Len(FoundGroups) = 2
    /\ FoundGroups[1] = <<2, 1>>
    /\ FoundGroups[2] = <<4, 3>>
    /\ files_to_remove = <<1, 3>>

TracksWith(table, fp) == {t \in table : create_fingerprint(t) = fp}

\* C20: analyze_duplicates lists exactly the fingerprints that more than
\* one track has; the original and the duplicates of a group are together
\* the tracks with that fingerprint, each once, and no duplicate was
\* created before the original; after remove_duplicates(dry_run=False) has
\* committed, every fingerprint of the table is left with exactly one track
\* and analyze_duplicates of the table finds no group.
C20_OneOriginalPerFingerprint ==
    tool = "dedupe_tracks" =>
        /\ DOMAIN duplicates =
              {fp \in {create_fingerprint(t) : t \in snapshot} :
                  Cardinality(TracksWith(snapshot, fp)) > 1}
        /\ \A fp \in DOMAIN duplicates :
              LET g == duplicates[fp]
              IN /\ {g.original} \cup Range(g.duplicates) = TracksWith(snapshot, fp)
                 /\ Len(g.duplicates) = Cardinality(TracksWith(snapshot, fp)) - 1
                 /\ \A i \in 1..Len(g.duplicates) :
                       g.original.created_at <= g.duplicates[i].created_at
        /\ commits = 1 =>
              /\ \A t \in snapshot :
                    Cardinality(TracksWith(tracks, create_fingerprint(t))) = 1
              /\ \A fetched \in fetch_all_tracks(tracks) :
                    DOMAIN analyze_duplicates(fetched) = {}

\* the duplicates of a group of three tracks, two of them created later
\* than the third, have been deleted and the deletion is committed
C20_Witness ==
    /\ tool = "dedupe_tracks"
    /\ commits = 1
    /\ \E fp \in DOMAIN duplicates :
          /\ duplicates[fp].count >= 2
          /\ duplicates[fp].original.created_at <
                duplicates[fp].duplicates[1].created_at
    /\ tracks # snapshot

(***************************************************************************)
(* The therapeutic-tag classifiers.  Scores are in thousandths, tempo in   *)
(* BPM.  A list of tags is a sequence of strings.                          *)
(***************************************************************************)
\* every tag of the four classifiers, in the order sorted() gives strings
TagOrder ==
    <<"HIIT_training", "acceptance", "active_work", "anxiety_reduction",
      "artistic_inspiration", "assertiveness", "background_ambiance",
      "background_focus", "background_work", "calm_focus",
      "celebration", "competitive_activities", "confidence",
      "confidence_building", "contemplation", "content_relaxation",
      "control", "creative_work", "dancing", "deep_emotional_work",
      "deep_relaxation", "deep_sleep", "emotional_depth",
      "emotional_processing", "emotional_release", "empowerment",
      "energy_boost", "exercise", "focus", "general_wellness",
      "gentle_morning_routine", "gentle_relaxation", "grief_support",
      "group_motivation", "healing", "high_energy_activities",
      "high_energy_boost", "high_intensity_exercise", "humility",
      "intense_exercise", "introspection", "joy", "leadership",
      "letting_go", "light_exercise", "meditation", "mindfulness",
      "moderate_exercise", "mood_boost", "mood_elevation",
      "mood_enhancement", "motivation", "openness", "optimism",
      "peaceful_work", "peak_performance", "physical_activation",
      "positivity", "productivity", "profound_relaxation",
      "receptiveness", "relaxation", "self_assurance", "sleep",
      "sleep_preparation", "slow_movement", "social_activities",
      "stability", "stress_relief", "study", "surrender",
      "therapeutic_processing", "uplifting", "walking", "work">>

Rank(tag) == CHOOSE i \in 1..Len(TagOrder) : TagOrder[i] = tag

\* sorted(list(s)) for a set s of tags
sorted(s) == SelectSeq(TagOrder, LAMBDA tag : tag \in s)

RECURSIVE Reverse(_)
Reverse(l) == IF l = <<>> THEN <<>> ELSE Reverse(Tail(l)) \o <<Head(l)>>

\* the first occurrences of the elements of l, in the order of l
RECURSIVE FirstOccurrences(_)
FirstOccurrences(l) ==
    IF l = <<>> THEN <<>>
    ELSE LET front == SubSeq(l, 1, Len(l) - 1)
         IN IF l[Len(l)] \in Range(front)
              THEN FirstOccurrences(front)
              ELSE FirstOccurrences(front) \o <<l[Len(l)]>>

\* list(set(l)): the elements come in the order of the set's hash table,
\* which changes with the string hash seed of the process; of the orders
\* that can come out, the ascending, the descending and the order of
\* first insertion are modelled
list_of_set(l) ==
    {sorted(Range(l)), Reverse(sorted(Range(l))), FirstOccurrences(l)}

\* audio_analyzer.py: the list built before "return list(set(...))"
_classify_therapeutic_use(vad, feat) ==
    LET valence == vad.valence
        arousal == vad.energy_arousal
        dominance == vad.dominance
    IN (IF arousal < 300 THEN <<"sleep", "deep_relaxation">>
        ELSE IF arousal < 600 THEN <<"relaxation", "meditation">>
        ELSE <<"energy_boost", "focus">>)
       \o (IF valence > 700 THEN <<"mood_enhancement">>
           ELSE IF valence < 400 THEN <<"emotional_processing">>
           ELSE <<>>)
       \o (IF dominance > 700 THEN <<"confidence_building">>
           ELSE IF dominance < 300 THEN <<"anxiety_reduction">>
           ELSE <<>>)
       \o (IF feat.tempo < 70 THEN <<"sleep_preparation">>
           ELSE IF feat.tempo > 120 THEN <<"physical_activation">>
           ELSE <<>>)

\* run_complete_vad_analysis.py: the list built before
\* "return list(set(applications))"
determine_therapeutic_applications(valence, arousal, dominance) ==
    (IF arousal > 700 THEN <<"energy_boost", "motivation", "exercise", "focus">> ELSE <<>>)
    \o (IF arousal < 300
          THEN <<"relaxation", "sleep", "meditation", "stress_relief">> ELSE <<>>)
    \o (IF valence > 700
          THEN <<"mood_boost", "confidence", "positivity", "celebration">> ELSE <<>>)
    \o (IF valence < 300
          THEN <<"introspection", "emotional_processing", "grief_support">> ELSE <<>>)
    \o (IF dominance > 700
          THEN <<"empowerment", "leadership", "confidence_building">> ELSE <<>>)
    \o (IF dominance < 300 THEN <<"humility", "acceptance", "letting_go">> ELSE <<>>)
    \o (IF 400 <= valence /\ valence <= 600 /\ 300 <= arousal /\ arousal <= 700
          THEN <<"general_wellness", "background_ambiance", "work">> ELSE <<>>)

\* robust_vad_camelot_analyzer.py: the list built before
\* "return sorted(list(set(applications)))"
robust_determine_therapeutic_applications(valence, arousal, dominance, bpm) ==
    (IF arousal > 800 THEN <<"high_energy_boost", "motivation", "exercise">>
     ELSE IF arousal > 600 THEN <<"energy_boost", "focus", "productivity">>
     ELSE IF arousal < 300 THEN <<"relaxation", "sleep", "meditation">>
     ELSE IF arousal < 500 THEN <<"calm_focus", "mindfulness">>
     ELSE <<>>)
    \o (IF valence > 800 THEN <<"mood_elevation", "confidence_building">>
        ELSE IF valence > 600 THEN <<"mood_boost", "positivity">>
        ELSE IF valence < 300 THEN <<"emotional_processing", "introspection">>
        ELSE <<>>)
    \o (IF dominance > 800 THEN <<"empowerment", "leadership">>
        ELSE IF dominance < 300 THEN <<"acceptance", "letting_go">>
        ELSE <<>>)
    \o (IF bpm < 70 THEN <<"deep_relaxation", "sleep">>
        ELSE IF 70 <= bpm /\ bpm < 110 THEN <<"light_exercise", "background_work">>
        ELSE IF 110 <= bpm /\ bpm < 140 THEN <<"moderate_exercise", "active_work">>
        ELSE <<"high_intensity_exercise", "peak_performance">>)

\* complete_vad_camelot_processor.py: the set "applications" before
\* "return sorted(list(applications))"
determine_comprehensive_therapeutic_applications(valence, arousal, dominance, bpm, camelot_analysis) ==
    Range(
      (IF arousal > 800
         THEN <<"high_energy_boost", "motivation", "exercise", "HIIT_training">>
       ELSE IF arousal > 600
         THEN <<"energy_boost", "focus", "productivity", "moderate_exercise">>
       ELSE IF arousal < 300
         THEN <<"deep_relaxation", "sleep", "meditation", "stress_relief">>
       ELSE IF arousal < 500 THEN <<"relaxation", "calm_focus", "mindfulness">>
       ELSE <<>>)
      \o (IF valence > 800
            THEN <<"mood_elevation", "confidence_building", "celebration", "joy">>
          ELSE IF valence > 600 THEN <<"mood_boost", "positivity", "optimism">>
          ELSE IF valence < 300
            THEN <<"emotional_processing", "grief_support", "introspection">>
          ELSE IF valence < 500 THEN <<"contemplation", "emotional_release">>
          ELSE <<>>)
      \o (IF dominance > 800
            THEN <<"empowerment", "leadership", "confidence", "assertiveness">>
          ELSE IF dominance > 600 THEN <<"self_assurance", "control", "stability">>
          ELSE IF dominance < 300
            THEN <<"surrender", "acceptance", "letting_go", "humility">>
          ELSE IF dominance < 500 THEN <<"receptiveness", "openness">>
          ELSE <<>>)
      \o (IF bpm < 60 THEN <<"deep_sleep", "meditation", "profound_relaxation">>
          ELSE IF 60 <= bpm /\ bpm < 90
            THEN <<"sleep_preparation", "gentle_relaxation", "slow_movement">>
          ELSE IF 90 <= bpm /\ bpm < 110
            THEN <<"walking", "light_exercise", "background_focus">>
          ELSE IF 110 <= bpm /\ bpm < 140
            THEN <<"work", "study", "moderate_exercise", "dancing">>
          ELSE <<"intense_exercise", "high_energy_activities", "peak_performance">>)
      \o (IF camelot_analysis.mode = "minor"
            THEN <<"emotional_depth", "artistic_inspiration", "creative_work">>
            ELSE <<"uplifting", "social_activities", "group_motivation">>)
      \o (IF valence > 600 /\ arousal < 400
            THEN <<"gentle_morning_routine", "peaceful_work", "content_relaxation">>
            ELSE <<>>)
      \o (IF valence < 400 /\ arousal < 400 /\ dominance < 400
            THEN <<"deep_emotional_work", "therapeutic_processing", "healing">>
            ELSE <<>>)
      \o (IF valence > 700 /\ arousal > 700 /\ dominance > 700
            THEN <<"peak_performance", "competitive_activities", "celebration">>
            ELSE <<>>))

ScoreSamples == {200, 300, 350, 450, 550, 650, 750, 850}
TempoSamples == {50, 65, 80, 100, 125, 150}

TagOthers ==
    <<batchVars, camelotVars, metaVars, nameVars, signalVars, dedupeVars,
      keyVars, hashVars, quickVars, lateVars>>

InitTags ==
    /\ tag_input \in [valence : ScoreSamples, energy_arousal : ScoreSamples,
                      dominance : ScoreSamples, tempo : TempoSamples,
                      mode : {"major", "minor"}]
    /\ tag_classifier = "none"
    /\ tag_list = <<>>
    /\ BatchIdle
    /\ CamelotIdle
    /\ MetaIdle
    /\ NameIdle
    /\ SignalIdle
    /\ DedupeIdle
    /\ KeyIdle
    /\ HashIdle
    /\ QuickIdle
    /\ LateIdle

Classified(by, returned) ==
    /\ tag_classifier = "none"
    /\ tag_classifier' = by
    /\ tag_list' = returned
    /\ UNCHANGED <<tag_input, TagOthers>>

\* audio_analyzer.py: return list(set(classifications))
ClassifyTherapeuticUse ==
    \E returned \in list_of_set(_classify_therapeutic_use(tag_input, tag_input)) :
        Classified("audio_analyzer", returned)

\* run_complete_vad_analysis.py: return list(set(applications))
DetermineTherapeuticApplications ==
    \E returned \in list_of_set(determine_therapeutic_applications(
                                   tag_input.valence, tag_input.energy_arousal,
                                   tag_input.dominance)) :
        Classified("run_complete_vad_analysis", returned)

\* robust_vad_camelot_analyzer.py: return sorted(list(set(applications)))
RobustDetermineTherapeuticApplications ==
    \E returned \in {sorted(Range(robust_determine_therapeutic_applications(
                                      tag_input.valence, tag_input.energy_arousal,
                                      tag_input.dominance, tag_input.tempo)))} :
        Classified("robust_vad_camelot_analyzer", returned)

\* complete_vad_camelot_processor.py: return sorted(list(applications))
DetermineComprehensiveTherapeuticApplications ==
    \E returned \in {sorted(determine_comprehensive_therapeutic_applications(
                                tag_input.valence, tag_input.energy_arousal,
                                tag_input.dominance, tag_input.tempo,
                                [mode |-> tag_input.mode]))} :
        Classified("complete_vad_camelot_processor", returned)

NextTags ==
    \/ ClassifyTherapeuticUse
    \/ DetermineTherapeuticApplications
    \/ RobustDetermineTherapeuticApplications
    \/ DetermineComprehensiveTherapeuticApplications

SpecTags == InitTags /\ [][NextTags]_vars

IsSortedTagList(l) ==
    \A i \in 1..(Len(l) - 1) : Rank(l[i]) <= Rank(l[i + 1])

\* C16: the list every therapeutic-tag classifier returns is sorted and
\* holds no tag twice, whatever the scores and the tempo.
C16_TagListSortedWithoutDuplicates ==
    tag_classifier # "none" =>
        /\ IsSortedTagList(tag_list)
        /\ \A i, j \in 1..Len(tag_list) : tag_list[i] = tag_list[j] => i = j

\* C30: determine_therapeutic_applications of run_complete_vad_analysis and
\* of robust_vad_camelot_analyzer returns at least one tag for every
\* valence, arousal, dominance and tempo.
C30_TagListNeverEmpty ==
    tag_classifier \in {"run_complete_vad_analysis", "robust_vad_camelot_analyzer"}
        => tag_list # <<>>

\* C17: in the classifiers of complete_vad_camelot_processor and
\* audio_analyzer the tags of a threshold rule are returned whenever the
\* condition of that rule holds, whether or not another rule on the same
\* score holds too.
C17_RulesApplyIndependently ==
    /\ tag_classifier = "complete_vad_camelot_processor" =>
          /\ tag_input.energy_arousal > 600 =>
                {"energy_boost", "focus", "productivity"} \subseteq Range(tag_list)
          /\ tag_input.energy_arousal < 500 =>
                {"relaxation", "calm_focus", "mindfulness"} \subseteq Range(tag_list)
          /\ tag_input.valence > 600 =>
                {"mood_boost", "positivity", "optimism"} \subseteq Range(tag_list)
          /\ tag_input.dominance > 600 =>
                {"self_assurance", "control", "stability"} \subseteq Range(tag_list)
    /\ tag_classifier = "audio_analyzer" =>
          /\ tag_input.energy_arousal < 600 =>
                {"relaxation", "meditation"} \subseteq Range(tag_list)

(***************************************************************************)
(* The key mappers: audio_analyzer.py _estimate_key and                    *)
(* complete_vad_camelot_processor.py detect_key_candidates.  The input is  *)
(* the list of correlations np.corrcoef gave for the 12 rotations of the   *)
(* major and of the minor profile, in thousandths; NaN is what it gives    *)
(* for a constant chroma profile.                                          *)
(***************************************************************************)
\* f"{key_names[i]} major" and f"{key_names[i]} minor"
MajorNames ==
    <<"C major", "C# major", "D major", "D# major", "E major", "F major",
      "F# major", "G major", "G# major", "A major", "A# major", "B major">>
MinorNames ==
    <<"C minor", "C# minor", "D minor", "D# minor", "E minor", "F minor",
      "F# minor", "G minor", "G# minor", "A minor", "A# minor", "B minor">>

\* the 24 names in the order Python compares strings
CandidateNameOrder ==
    <<"A major", "A minor", "A# major", "A# minor", "B major", "B minor",
      "C major", "C minor", "C# major", "C# minor", "D major", "D minor",
      "D# major", "D# minor", "E major", "E minor", "F major", "F minor",
      "F# major", "F# minor", "G major", "G minor", "G# major", "G# minor">>

NameRank(n) == CHOOSE i \in 1..Len(CandidateNameOrder) : CandidateNameOrder[i] = n

\* np.argmax: the first NaN if there is one, else the first maximum
argmax(l) ==
    IF \E i \in 1..Len(l) : l[i] = NaN
      THEN Least({i \in 1..Len(l) : l[i] = NaN})
      ELSE Least({i \in 1..Len(l) : \A j \in 1..Len(l) : l[j] <= l[i]})

\* a > b for floats: false when either is NaN
GreaterThan(a, b) == a # NaN /\ b # NaN /\ a > b

_estimate_key(corr) ==
    LET best_major_idx == argmax(corr.major)
        best_minor_idx == argmax(corr.minor)
    IN IF GreaterThan(corr.major[best_major_idx], corr.minor[best_minor_idx])
         THEN MajorNames[best_major_idx]
         ELSE MinorNames[best_minor_idx]

\* 0.0 if np.isnan(x) else float(x)
nan_to_zero(x) == IF x = NaN THEN 0 ELSE x

\* major_correlations + minor_correlations: tuples (correlation, name)
all_correlations(corr) ==
    [i \in 1..24 |->
        IF i <= 12 THEN <<nan_to_zero(corr.major[i]), MajorNames[i]>>
        ELSE <<nan_to_zero(corr.minor[i - 12]), MinorNames[i - 12]>>]

\* tuple comparison: by correlation, then by name
TupleLess(a, b) ==
    a[1] < b[1] \/ (a[1] = b[1] /\ NameRank(a[2]) < NameRank(b[2]))

\* the first n elements of the list after sort(reverse=True)
RECURSIVE SortedReverse(_, _)
SortedReverse(S, n) ==
    IF S = {} \/ n = 0 THEN <<>>
    ELSE LET top == CHOOSE a \in S : \A b \in S : b = a \/ TupleLess(b, a)
         IN <<top>> \o SortedReverse(S \ {top}, n - 1)

\* return [key for _, key in all_correlations[:5]]
detect_key_candidates(corr) ==
    LET top == SortedReverse(Range(all_correlations(corr)), 5)
    IN [i \in 1..Len(top) |-> top[i][2]]

\* correlation lists with the highest value at the scan positions in S
\* (1..12 major, 13..24 minor) and pairwise different lower values elsewhere
BestAt(S) ==
    [major |-> [i \in 1..12 |-> IF i \in S THEN 900 ELSE 10 * i],
     minor |-> [i \in 1..12 |-> IF (i + 12) \in S THEN 900 ELSE 10 * (i + 12)]]

\* a constant chroma profile (digital silence): every correlation is NaN
ConstantChroma ==
    [major |-> [i \in 1..12 |-> NaN], minor |-> [i \in 1..12 |-> NaN]]

CorrelationSamples ==
    {BestAt({a, b}) : a, b \in 1..24} \cup {ConstantChroma}

KeyOthers ==
    <<batchVars, camelotVars, metaVars, nameVars, signalVars, dedupeVars,
      tagVars, hashVars, quickVars, lateVars>>

InitKey ==
    /\ correlations \in CorrelationSamples
    /\ key_mapper = "none"
    /\ primary_key = ""
    /\ key_candidates = <<>>
    /\ BatchIdle
    /\ CamelotIdle
    /\ MetaIdle
    /\ NameIdle
    /\ SignalIdle
    /\ DedupeIdle
    /\ TagIdle
    /\ HashIdle
    /\ QuickIdle
    /\ LateIdle

\* audio_analyzer.py: 'key_signature': self._estimate_key(chroma)
EstimateKey ==
    /\ key_mapper = "none"
    /\ key_mapper' = "audio_analyzer"
    /\ primary_key' = _estimate_key(correlations)
    /\ UNCHANGED <<correlations, key_candidates, KeyOthers>>

\* complete_vad_camelot_processor.py, comprehensive_camelot_analysis:
\* primary_key = key_candidates[0] if key_candidates else "C major"
DetectKeyCandidates ==
    /\ key_mapper = "none"
    /\ key_mapper' = "complete_vad_camelot_processor"
    /\ key_candidates' = detect_key_candidates(correlations)
    /\ primary_key' = IF detect_key_candidates(correlations) # <<>>
                        THEN detect_key_candidates(correlations)[1]
                        ELSE "C major"
    /\ UNCHANGED <<correlations, KeyOthers>>

NextKey ==
    \/ EstimateKey
    \/ DetectKeyCandidates

SpecKey == InitKey /\ [][NextKey]_vars

\* the candidates in the order they are scanned: C, C#, ..., B major, then
\* C, C#, ..., B minor
ScanNames == MajorNames \o MinorNames

Scanned(corr) ==
    [i \in 1..24 |-> IF i <= 12 THEN corr.major[i] ELSE corr.minor[i - 12]]

FirstScannedBest(l) ==
    ScanNames[Least({i \in 1..24 : \A j \in 1..24 : l[j] <= l[i]})]

\* C18: the key that is selected is the first candidate, in scan order,
\* among those with the highest correlation (for detect_key_candidates,
\* the correlation after NaN was replaced by 0).
C18_FirstScannedBestKeyWins ==
    /\ (key_mapper = "audio_analyzer" /\ correlations # ConstantChroma) =>
          primary_key = FirstScannedBest(Scanned(correlations))
    /\ key_mapper = "complete_vad_camelot_processor" =>
          primary_key =
             FirstScannedBest([i \in 1..24 |-> nan_to_zero(Scanned(correlations)[i])])

(***************************************************************************)
(* analyze_new_uploads.py: one uploaded file is analysed in a process      *)
(* whose str hash seed gives the title any integer as its hash.            *)
(***************************************************************************)
MaxHash == 600

\* titles with one keyword, with several, and with none
UploadTitles ==
    {<<"sleep">>, <<"meditation">>, <<"energize">>, <<"focus">>, <<"relax">>,
     <<"relaxation">>, <<"reverie">>, <<"sleep", " ", "energize">>,
     <<"relax", " ", "focus">>, <<"relax", " ", "meditation">>}

\* hash(title): every residue modulo 50, 100, 150 and 200, of both signs
TitleHashes == (0 - MaxHash)..MaxHash

InitHash ==
    /\ upload_file \in {t \o TimestampSuffix : t \in UploadTitles}
    /\ title_hash = 0
    /\ upload_analysis = <<>>
    /\ BatchIdle
    /\ CamelotIdle
    /\ MetaIdle
    /\ NameIdle
    /\ SignalIdle
    /\ DedupeIdle
    /\ TagIdle
    /\ KeyIdle
    /\ QuickIdle
    /\ LateIdle

\* analyze_new_files, the body of the loop for the one file
AnalyzeNewFiles ==
    \E h \in TitleHashes :
        /\ upload_analysis = <<>>
        /\ title_hash' = h
        /\ upload_analysis' = <<analysis_entry(upload_file, h)>>
        /\ UNCHANGED <<upload_file, batchVars, camelotVars, metaVars, nameVars,
                       signalVars, dedupeVars, tagVars, keyVars, quickVars,
                       lateVars>>

NextHash == AnalyzeNewFiles

SpecHash == InitHash /\ [][NextHash]_vars

UploadTitleLower == lower(StripTimestamp(upload_file))

Between(x, lo, hi) == lo <= x /\ x <= hi

\* C19: for every title hash, negative ones included, the valence, arousal
\* and dominance of the entry lie in the sub-range of the category that was
\* detected in the title (thousandths): sleep/meditation in 400..600,
\* 50..150, 300..500; otherwise energize/focus in 600..800, 500..900,
\* 500..800; otherwise relax in 500..800, 200..400, 400..600; a title with
\* none of the keywords keeps 500, 300, 400.
C19_FanOutStaysInCategoryRange ==
    upload_analysis # <<>> =>
        LET vad == upload_analysis[1].vad_analysis
            calm == \/ Contains(UploadTitleLower, "sleep")
                    \/ Contains(UploadTitleLower, "meditation")
            boost == \/ Contains(UploadTitleLower, "energize")
                     \/ Contains(UploadTitleLower, "focus")
            relax == Contains(UploadTitleLower, "relax")
        IN /\ calm =>
                /\ Between(vad.valence, 400, 600)
                /\ Between(vad.arousal, 50, 150)
                /\ Between(vad.dominance, 300, 500)
           /\ (~calm /\ boost) =>
                /\ Between(vad.valence, 600, 800)
                /\ Between(vad.arousal, 500, 900)
                /\ Between(vad.dominance, 500, 800)
           /\ (~calm /\ ~boost /\ relax) =>
                /\ Between(vad.valence, 500, 800)
                /\ Between(vad.arousal, 200, 400)
                /\ Between(vad.dominance, 400, 600)
           /\ (~calm /\ ~boost /\ ~relax) =>
                /\ vad.valence = 500
                /\ vad.arousal = 300
                /\ vad.dominance = 400

\* C29: the therapeutic_category of the entry and its VAD values belong to
\* the same keyword: sleep_enhancement and meditation come with the
\* sleep/meditation ranges, relaxation with the relax ranges and mood_boost
\* with the energize/focus ranges, whatever keywords the title holds.
C29_CategoryAndVadFromSameKeyword ==
    upload_analysis # <<>> =>
        LET category == upload_analysis[1].therapeutic_category
            vad == upload_analysis[1].vad_analysis
        IN /\ category \in {"sleep_enhancement", "meditation"} =>
                /\ Between(vad.valence, 400, 600)
                /\ Between(vad.arousal, 50, 150)
                /\ Between(vad.dominance, 300, 500)
           /\ category = "relaxation" =>
                /\ Between(vad.valence, 500, 800)
                /\ Between(vad.arousal, 200, 400)
                /\ Between(vad.dominance, 400, 600)
           /\ category = "mood_boost" =>
                /\ Between(vad.valence, 600, 800)
                /\ Between(vad.arousal, 500, 900)
                /\ Between(vad.dominance, 500, 800)

\* C28: each of the 24 keys <1-12><A|B> is the estimated_key of some title
\* hash.
C28_EstimatedKeyCoversTheWheel ==
    upload_analysis # <<>> =>
        /\ upload_analysis[1].camelot_wheel.estimated_key \in CamelotKeys
        /\ \A key \in CamelotKeys : \E h \in TitleHashes : estimated_key(h) = key

\* a sleep title whose hash is -1: the fan-out reaches the top of the range
C19_Witness ==
    /\ upload_analysis # <<>>
    /\ title_hash = 0 - 1
    /\ upload_file = <<"sleep">> \o TimestampSuffix
    /\ upload_analysis[1].vad_analysis.valence = 598
    /\ upload_analysis[1].vad_analysis.arousal = 148

(***************************************************************************)
(* quick_dedupe.py: analyze_filename_patterns groups the files of the      *)
(* music library by cleaned title and by size, and removes what each group *)
(* lists under 'remove'.                                                   *)
(***************************************************************************)
MaxQuickFiles == 3

\* file names: "Pop;1.mp3", "p-op_2.mp3", "Bop;.mp3", " bop_.mp3", "Map.mp3"
QuickNames ==
    {<<"P", "o", "p", ";", "1", ".mp3">>, <<"p", "-", "o", "p", "_", "2", ".mp3">>,
     <<"B", "o", "p", ";", ".mp3">>, <<" ", "b", "o", "p", "_", ".mp3">>,
     <<"M", "a", "p", ".mp3">>}

QuickSizes == {3, 5}

\* s.split(sep)[0]
split_first(s, sep) ==
    IF sep \in Range(s)
      THEN SubSeq(s, 1, Least({i \in 1..Len(s) : s[i] = sep}) - 1)
      ELSE s

\* filename.split(';')[0].split('_')[0].strip()
title_part(name) == strip(split_first(split_first(name, ";"), "_"))

\* title_part.lower().replace(' ', '').replace('-', '')
title_clean(name) ==
    SelectSeq(lower(title_part(name)), LAMBDA c : c \notin {" ", "-"})

RECURSIVE InsertBySizeOf(_, _, _)
InsertBySizeOf(sizes, list, f) ==
    IF list = <<>> THEN <<f>>
    ELSE IF sizes[Head(list)] >= sizes[f]
      THEN <<Head(list)>> \o InsertBySizeOf(sizes, Tail(list), f)
      ELSE <<f>> \o list

\* files_list.sort(key=lambda x: x['size'], reverse=True)
RECURSIVE sort_files_list(_, _)
sort_files_list(sizes, list) ==
    IF list = <<>> THEN <<>>
    ELSE InsertBySizeOf(sizes,
                        sort_files_list(sizes, SubSeq(list, 1, Len(list) - 1)),
                        list[Len(list)])

\* the group of a dict entry with more than one file
duplicate_group(type, files_list) ==
    [type |-> type, files |-> files_list, keep |-> Head(files_list),
     remove |-> Tail(files_list)]

\* "for title, files_list in title_groups.items()": the titles in the order
\* of their first file
RECURSIVE title_duplicates(_, _, _)
title_duplicates(titles, files, sizes) ==
    IF titles = <<>> THEN <<>>
    ELSE LET files_list ==
                 SelectSeq(files, LAMBDA f : title_clean(f) = Head(titles))
         IN (IF Len(files_list) > 1
               THEN <<duplicate_group("title_similarity",
                                      sort_files_list(sizes, files_list))>>
               ELSE <<>>)
            \o title_duplicates(Tail(titles), files, sizes)

\* "for size, files_list in size_groups.items()"
RECURSIVE size_duplicates(_, _, _)
size_duplicates(size_keys, files, sizes) ==
    IF size_keys = <<>> THEN <<>>
    ELSE LET files_list ==
                 SelectSeq(files, LAMBDA f : sizes[f] = Head(size_keys))
         IN (IF Len(files_list) > 1
               THEN <<duplicate_group("exact_size", files_list)>>
               ELSE <<>>)
            \o size_duplicates(Tail(size_keys), files, sizes)

quick_duplicate_groups(files, sizes) ==
    title_duplicates(FirstOccurrences([i \in 1..Len(files) |-> title_clean(files[i])]),
                     files, sizes)
    \o size_duplicates(FirstOccurrences([i \in 1..Len(files) |-> sizes[files[i]]]),
                       files, sizes)

\* "for group in duplicate_groups: for remove_path in group['remove']"
RECURSIVE remove_paths(_)
remove_paths(groups) ==
    IF groups = <<>> THEN <<>>
    ELSE Head(groups).remove \o remove_paths(Tail(groups))

QuickOthers ==
    <<batchVars, camelotVars, metaVars, nameVars, signalVars, dedupeVars,
      tagVars, keyVars, hashVars, lateVars>>

\* the library holds MaxQuickFiles files; glob returns them in any order
InitQuick ==
    /\ \E names \in SUBSET QuickNames :
          /\ Cardinality(names) = MaxQuickFiles
          /\ quick_files \in Perms(names)
          /\ quick_sizes \in [names -> QuickSizes]
          /\ quick_disk = names
    /\ quick_groups = <<>>
    /\ quick_step = "start"
    /\ quick_done = 0
    /\ BatchIdle
    /\ CamelotIdle
    /\ MetaIdle
    /\ NameIdle
    /\ SignalIdle
    /\ DedupeIdle
    /\ TagIdle
    /\ KeyIdle
    /\ HashIdle
    /\ LateIdle

\* analyze_filename_patterns up to the removal loops
AnalyzeFilenamePatterns ==
    /\ quick_step = "start"
    /\ quick_groups' = quick_duplicate_groups(quick_files, quick_sizes)
    /\ quick_step' = IF quick_groups' # <<>> THEN "remove" ELSE "done"
    /\ UNCHANGED <<quick_files, quick_sizes, quick_disk, quick_done, QuickOthers>>

\* one os.remove(remove_path); its exception is caught and printed
RemovePath ==
    /\ quick_step = "remove"
    /\ LET paths == remove_paths(quick_groups)
           remove_path == paths[quick_done + 1]
       IN /\ \E ok \in BOOLEAN :
                quick_disk' = IF ok THEN quick_disk \ {remove_path} ELSE quick_disk
          /\ quick_done' = quick_done + 1
          /\ quick_step' = IF quick_done + 1 = Len(paths) THEN "done" ELSE "remove"
    /\ UNCHANGED <<quick_files, quick_sizes, quick_groups, QuickOthers>>

NextQuick ==
    \/ AnalyzeFilenamePatterns
    \/ RemovePath

SpecQuick == InitQuick /\ [][NextQuick]_vars

\* C22: after the removal pass the file every group designates 'keep' is
\* still on disk, so every title group and every size group has one of its
\* files left.
C22_KeptFileIsNeverRemoved ==
    quick_step \in {"remove", "done"} =>
        \A i \in 1..Len(quick_groups) :
            /\ quick_groups[i].keep \in quick_disk
            /\ Range(quick_groups[i].files) \cap quick_disk # {}

(***************************************************************************)
(* dedupe_tracks.py: create_fingerprint and analyze_duplicates on two rows *)
(* whose titles and artists may hold any character.                        *)
(***************************************************************************)
\* "Pop", " pop" and "Pop|Bob"
FpTitles ==
    {<<"P", "o", "p">>, <<" ", "p", "o", "p">>,
     <<"P", "o", "p", "|", "B", "o", "b">>}

\* "Bob", "bob " and "Bob|Bob"
FpArtists ==
    {<<"B", "o", "b">>, <<"b", "o", "b", " ">>,
     <<"B", "o", "b", "|", "B", "o", "b">>}

FpDurations == {180, 200}

FpOthers ==
    <<batchVars, camelotVars, metaVars, nameVars, signalVars, dedupeVars,
      tagVars, keyVars, hashVars, quickVars, wheelVars>>

\* two rows, as fetch_all_tracks returned them
InitFp ==
    /\ fp_tracks \in
          {<<[id |-> 2, title |-> t2, artist |-> a2, duration |-> d2,
              created_at |-> 2, valence |-> NoInt],
             [id |-> 1, title |-> t1, artist |-> a1, duration |-> d1,
              created_at |-> 1, valence |-> NoInt]>> :
              t1 \in FpTitles, t2 \in FpTitles, a1 \in FpArtists,
              a2 \in FpArtists, d1 \in FpDurations, d2 \in FpDurations}
    /\ fp_duplicates = <<>>
    /\ fp_step = "fetched"
    /\ BatchIdle
    /\ CamelotIdle
    /\ MetaIdle
    /\ NameIdle
    /\ SignalIdle
    /\ DedupeIdle
    /\ TagIdle
    /\ KeyIdle
    /\ HashIdle
    /\ QuickIdle
    /\ WheelIdle

AnalyzeDuplicates ==
    /\ fp_step = "fetched"
    /\ fp_duplicates' = analyze_duplicates(fp_tracks)
    /\ fp_step' = "analysed"
    /\ UNCHANGED <<fp_tracks, FpOthers>>

NextFp == AnalyzeDuplicates

SpecFp == InitFp /\ [][NextFp]_vars

\* the stripped, lower-cased title and artist, and the duration
NormalisedTriple(track) ==
    <<lower(strip(track.title)), lower(strip(track.artist)), track.duration>>

\* C23: two tracks have the same fingerprint only if their normalised
\* titles, their normalised artists and their durations are equal, and a
\* track is listed as the duplicate of an original only in that case.
C23_FingerprintInjectiveOnTriple ==
    fp_step = "analysed" =>
        /\ \A i, j \in 1..Len(fp_tracks) :
              create_fingerprint(fp_tracks[i]) = create_fingerprint(fp_tracks[j])
                 => NormalisedTriple(fp_tracks[i]) = NormalisedTriple(fp_tracks[j])
        /\ \A fp \in DOMAIN fp_duplicates :
              \A k \in 1..Len(fp_duplicates[fp].duplicates) :
                  NormalisedTriple(fp_duplicates[fp].duplicates[k])
                     = NormalisedTriple(fp_duplicates[fp].original)

(***************************************************************************)
(* The Camelot key mappers of the three librosa scripts.                   *)
(***************************************************************************)
Label(number, letter) == CamelotString(number, letter)

\* complete_vad_camelot_processor.py, _initialize_camelot_wheel
camelot_wheel ==
    ("C major" :> Label(8, "B")) @@ ("G major" :> Label(9, "B")) @@
    ("D major" :> Label(10, "B")) @@ ("A major" :> Label(11, "B")) @@
    ("E major" :> Label(12, "B")) @@ ("B major" :> Label(1, "B")) @@
    ("F# major" :> Label(2, "B")) @@ ("C# major" :> Label(3, "B")) @@
    ("Ab major" :> Label(4, "B")) @@ ("Eb major" :> Label(5, "B")) @@
    ("Bb major" :> Label(6, "B")) @@ ("F major" :> Label(7, "B")) @@
    ("A minor" :> Label(8, "A")) @@ ("E minor" :> Label(9, "A")) @@
    ("B minor" :> Label(10, "A")) @@ ("F# minor" :> Label(11, "A")) @@
    ("C# minor" :> Label(12, "A")) @@ ("G# minor" :> Label(1, "A")) @@
    ("D# minor" :> Label(2, "A")) @@ ("A# minor" :> Label(3, "A")) @@
    ("F minor" :> Label(4, "A")) @@ ("C minor" :> Label(5, "A")) @@
    ("G minor" :> Label(6, "A")) @@ ("D minor" :> Label(7, "A"))

\* key_names of detect_key_candidates
key_names == <<"C", "C#", "D", "D#", "E", "F", "F#", "G", "G#", "A", "A#", "B">>

\* musical_key.split()[0] for f"{key_names[i]} major" / f"{key_names[i]} minor"
first_word(musical_key) ==
    key_names[CHOOSE i \in 1..12 : musical_key \in {MajorNames[i], MinorNames[i]}]

\* key_mapping of map_to_camelot, as key_mapping.get(key_name, "8")
key_mapping(key_name) ==
    IF key_name = "C" THEN 8 ELSE IF key_name = "C#" THEN 3
    ELSE IF key_name = "D" THEN 10 ELSE IF key_name = "D#" THEN 2
    ELSE IF key_name = "E" THEN 12 ELSE IF key_name = "F" THEN 7
    ELSE IF key_name = "F#" THEN 2 ELSE IF key_name = "G" THEN 9
    ELSE IF key_name = "G#" THEN 1 ELSE IF key_name = "A" THEN 11
    ELSE IF key_name = "A#" THEN 3 ELSE IF key_name = "B" THEN 1
    ELSE 8

map_to_camelot(musical_key, is_major) ==
    IF musical_key \in DOMAIN camelot_wheel
      THEN camelot_wheel[musical_key]
      ELSE Label(key_mapping(first_word(musical_key)),
                 IF is_major THEN "B" ELSE "A")

\* the fields of the record that name a key or a mode; mode_confidence in
\* thousandths
comprehensive_camelot_analysis(candidates, mode_confidence) ==
    LET primary == IF candidates # <<>> THEN candidates[1] ELSE "C major"
        is_major == mode_confidence > 500
    IN [primary_key |-> primary,
        camelot_key |-> map_to_camelot(primary, is_major),
        mode |-> IF mode_confidence > 500 THEN "major" ELSE "minor"]

\* major_keys with the entry of G# taken from key_mapping
major_keys_fallback ==
    <<Label(8, "B"), Label(3, "B"), Label(10, "B"), Label(5, "B"),
      Label(12, "B"), Label(7, "B"), Label(2, "B"), Label(9, "B"),
      Label(1, "B"), Label(11, "B"), Label(6, "B"), Label(1, "B")>>

\* run_complete_vad_analysis.py and robust_vad_camelot_analyzer.py hold the
\* same two lists
major_keys ==
    <<Label(8, "B"), Label(3, "B"), Label(10, "B"), Label(5, "B"),
      Label(12, "B"), Label(7, "B"), Label(2, "B"), Label(9, "B"),
      Label(4, "B"), Label(11, "B"), Label(6, "B"), Label(1, "B")>>

minor_keys ==
    <<Label(5, "A"), Label(12, "A"), Label(7, "A"), Label(2, "A"),
      Label(9, "A"), Label(4, "A"), Label(11, "A"), Label(6, "A"),
      Label(1, "A"), Label(8, "A"), Label(3, "A"), Label(10, "A")>>

\* is_major = brightness > 0
analyze_camelot_key(key_index, brightness) ==
    IF brightness > 0 THEN major_keys[key_index + 1] ELSE minor_keys[key_index + 1]

\* mfcc has 13 rows, so is_major = brightness > 0 here too
determine_camelot_key_safe(key_index, brightness) ==
    IF brightness > 0 THEN major_keys[(key_index % 12) + 1]
    ELSE minor_keys[(key_index % 12) + 1]

ModeConfidences == {119, 500, 501, 881}
Brightnesses == {0 - 1, 0, 1}

WheelOthers ==
    <<batchVars, camelotVars, metaVars, nameVars, signalVars, dedupeVars,
      tagVars, keyVars, hashVars, quickVars, fpVars>>

\* the first key candidate, the mode confidence, the argmax of the chroma
\* means and the mean of mfcc[1:4]
InitWheel ==
    /\ wheel_input \in [candidate : Range(MajorNames) \cup Range(MinorNames),
                        mode_confidence : ModeConfidences,
                        key_index : 0..11,
                        brightness : Brightnesses]
    /\ wheel_by = "none"
    /\ wheel_result = None
    /\ BatchIdle
    /\ CamelotIdle
    /\ MetaIdle
    /\ NameIdle
    /\ SignalIdle
    /\ DedupeIdle
    /\ TagIdle
    /\ KeyIdle
    /\ HashIdle
    /\ QuickIdle
    /\ FpIdle

Mapped(by, returned) ==
    /\ wheel_by = "none"
    /\ wheel_by' = by
    /\ wheel_result' = returned
    /\ UNCHANGED <<wheel_input, WheelOthers>>

ComprehensiveCamelotAnalysis ==
    \E returned \in {comprehensive_camelot_analysis(<<wheel_input.candidate>>,
                                                    wheel_input.mode_confidence)} :
        Mapped("complete_vad_camelot_processor", returned)

AnalyzeCamelotKey ==
    \E returned \in {analyze_camelot_key(wheel_input.key_index,
                                         wheel_input.brightness)} :
        Mapped("run_complete_vad_analysis", [camelot_key |-> returned])

DetermineCamelotKeySafe ==
    \E returned \in {determine_camelot_key_safe(wheel_input.key_index,
                                                wheel_input.brightness)} :
        Mapped("robust_vad_camelot_analyzer", [camelot_key |-> returned])

NextWheel ==
    \/ ComprehensiveCamelotAnalysis
    \/ AnalyzeCamelotKey
    \/ DetermineCamelotKeySafe

SpecWheel == InitWheel /\ [][NextWheel]_vars

IsMajorName(name) == name \in Range(MajorNames)

\* C25: in the record of comprehensive_camelot_analysis the letter of
\* camelot_key is B exactly when mode is "major", and exactly when
\* primary_key names a major key.
C25_ModeIndicationsAgree ==
    wheel_by = "complete_vad_camelot_processor" =>
        /\ KeyLetter(wheel_result.camelot_key) = "B" <=> wheel_result.mode = "major"
        /\ KeyLetter(wheel_result.camelot_key) = "B" <=>
              IsMajorName(wheel_result.primary_key)

\* the name the wheel table uses for pitch class p (0 = C) in a mode
WheelName(p, major) ==
    IF major
      THEN <<"C major", "C# major", "D major", "Eb major", "E major", "F major",
             "F# major", "G major", "Ab major", "A major", "Bb major",
             "B major">>[p + 1]
      ELSE MinorNames[p + 1]

PitchClass(name) ==
    (CHOOSE i \in 1..12 : name \in {MajorNames[i], MinorNames[i]}) - 1

\* C26: for each of the 24 names detect_key_candidates emits, map_to_camelot
\* with is_major equal to the mode of the name returns the label the wheel
\* table gives to the key of that pitch class and mode (G# major that of Ab
\* major, D# major that of Eb major, A# major that of Bb major), and the 24
\* names get 24 different labels.
C26_EveryCandidateNameOnItsWheelPosition ==
    /\ (/\ wheel_by = "complete_vad_camelot_processor"
        /\ (wheel_input.mode_confidence > 500) = IsMajorName(wheel_input.candidate))
          => wheel_result.camelot_key =
                camelot_wheel[WheelName(PitchClass(wheel_input.candidate),
                                        IsMajorName(wheel_input.candidate))]
    /\ wheel_by = "complete_vad_camelot_processor" =>
          Cardinality({map_to_camelot(n, IsMajorName(n)) :
                          n \in Range(MajorNames) \cup Range(MinorNames)}) = 24

NumberOf(table, p) == KeyNumber(table[p + 1])

\* C27: the lists major_keys and minor_keys give pitch class p the label
\* the wheel table gives the key of that pitch class; each list numbers the
\* 12 pitch classes with the 12 numbers 1..12; the major key of p and the
\* minor key of (p + 9) mod 12 have one number; 7 semitones up is one
\* number up, 12 wrapping to 1.
C27_IndexTablesAgreeWithWheel ==
    wheel_by \in {"run_complete_vad_analysis", "robust_vad_camelot_analyzer"} =>
        /\ wheel_result.camelot_key =
              camelot_wheel[WheelName(wheel_input.key_index,
                                      wheel_input.brightness > 0)]
        /\ \A p \in 0..11 :
              /\ major_keys[p + 1] = camelot_wheel[WheelName(p, TRUE)]
              /\ minor_keys[p + 1] = camelot_wheel[WheelName(p, FALSE)]
              /\ KeyLetter(major_keys[p + 1]) = "B"
              /\ KeyLetter(minor_keys[p + 1]) = "A"
              /\ NumberOf(major_keys, p) = NumberOf(minor_keys, (p + 9) % 12)
              /\ NumberOf(major_keys, (p + 7) % 12) = (NumberOf(major_keys, p) % 12) + 1
              /\ NumberOf(minor_keys, (p + 7) % 12) = (NumberOf(minor_keys, p) % 12) + 1
        /\ {NumberOf(major_keys, p) : p \in 0..11} = 1..12
        /\ {NumberOf(minor_keys, p) : p \in 0..11} = 1..12

\* robust_vad_camelot_analyzer.py mapped G# with a bright timbre to 4B
C27_Witness ==
    /\ wheel_by = "robust_vad_camelot_analyzer"
    /\ wheel_input.key_index = 8
    /\ wheel_input.brightness = 1
    /\ wheel_result.camelot_key = Label(4, "B")

====
